---- MODULE Spec2Model ----
(***************************************************************************)
(* A model of the CSV parsing engine and the upload orchestration of the   *)
(* csv-wizard backend (src/api/csv-api.js and the create-tab handlers).    *)
(*                                                                         *)
(* A JavaScript string is a sequence of one-character strings; an index    *)
(* that JavaScript counts from 0 is kept 0-based here (line[i + 1] is the  *)
(* code's line[i]).                                                        *)
(***************************************************************************)
EXTENDS Integers, Sequences, FiniteSets, TLC

VARIABLES
    \* parseCSVLine (csv-api.js:147-173): its arguments and its locals
    line, delimiter, i, current, inQuotes, result, tpc,
    \* detectDelimiter (csv-api.js:127-145): its argument and its locals
    detContent, detIdx, bestDelimiter, maxCount, dpc,
    \* the sanitizer of the handlers (csv-api.js:275-284, 381-390): the request's
    \* content, the text being sanitized and the statement reached
    csvContent, sanitizedContent, spc,
    \* parseCSVContent (csv-api.js:10-125): its arguments, its locals and the
    \* value it returns
    parseContent, options, lines, finalDelimiter, rows, csvResult, ppc,
    \* a request to the CSV API (csv-api.js:175-644): the request, the statement
    \* reached, the value uploadToGoogleSheets returns, the remote calls made so
    \* far and the response sent
    req, pc, uploadResult, calls, resStatus, resBody,
    \* the rows of the tab of the remote spreadsheet the upload writes to
    sheetRows,
    \* the row of user_usage the handler has read for the request's user
    usageRow,
    \* a create-tab request (sheets-api.js:425-558 and the create-tab endpoint):
    \* the request, the statement reached, the titles of the tabs of the remote
    \* spreadsheet, the titles the lookup returned, the remote calls made so far
    \* and the response sent
    tabReq, tabPc, sheetTitles, existingTabs, tabCalls, tabRes,
    \* two replace uploads to the same tab (csv-api.js:562-594), from the clear
    \* call on: the statement each has reached, the sheetData of each, and the
    \* remote calls in the order the service answered them; the same variables
    \* hold two create-tab requests running at the same time, raceData being
    \* the request of each and raceRes the status each was answered with
    racePc, raceData, raceCalls, raceRes,
    \* the bulk queue (get-sheet-tabs.js:1079-1178 and 1417-1614): the row of
    \* the job in bulk_upload_jobs, the statuses of its rows in
    \* bulk_upload_files, and for each of two requests its handler's position
    \* and locals and the response sent
    bulkJob, bulkFiles, bulkReq, bulkRes,
    \* the trial of one user: the time of the server, the user's row of
    \* user_usage, the trialStatus user-info.js last answered and the answer of
    \* the trial gate of handleCompleteUpload, each with the time it was made
    now, usageData, trialStatus, gate,
    \* the background script: its three globals, the csvInfo objects made so
    \* far with the state of each one's interceptCSVContent, the entry
    \* 'lastCSVDownload' of chrome.storage.local, the state of each running
    \* processCSVQueue, the pending callbacks of chrome.downloads.search, and
    \* the detections handleCSVDetection was called with, in order
    lastCSVDownload, csvDetectionQueue, isProcessingQueue, csvInfos, intercepts, storage,
    drains, searches, handled

tokVars == <<line, delimiter, i, current, inQuotes, result, tpc>>
detVars == <<detContent, detIdx, bestDelimiter, maxCount, dpc>>
sanVars == <<csvContent, sanitizedContent, spc>>
parseVars == <<parseContent, options, lines, finalDelimiter, rows, csvResult, ppc>>
reqVars == <<req, pc, uploadResult, calls, resStatus, resBody, sheetRows, usageRow>>
tabVars == <<tabReq, tabPc, sheetTitles, existingTabs, tabCalls, tabRes>>
raceVars == <<racePc, raceData, raceCalls, raceRes>>
bulkVars == <<bulkJob, bulkFiles, bulkReq, bulkRes>>
clockVars == <<now, usageData, trialStatus, gate>>
bgVars ==
    <<lastCSVDownload, csvDetectionQueue, isProcessingQueue, csvInfos, intercepts, storage,
      drains, searches, handled>>
vars == <<tokVars, detVars, sanVars, parseVars, reqVars, tabVars, raceVars, bulkVars, clockVars, bgVars>>

(***************************************************************************)
(* Bounds of the model.                                                    *)
(***************************************************************************)
MaxLineLen == 4
MaxDetLen == 4
MaxPieces == 4
MaxRows == 3
MaxUploadRows == 2
MaxNameLen == 2

(***************************************************************************)
(* Characters and strings.                                                 *)
(***************************************************************************)
Quote == "\""
NL == "\n"
TAB == "\t"
Undefined == "undefined"

\* String.prototype.trim(): the white space of the model's alphabets.
IsWhite(c) == c \in {" ", "\t", "\n", "\r"}

RECURSIVE trimStart(_)
trimStart(s) ==
    IF s # <<>> /\ IsWhite(Head(s)) THEN trimStart(Tail(s)) ELSE s

RECURSIVE trimEnd(_)
trimEnd(s) ==
    IF s # <<>> /\ IsWhite(s[Len(s)])
    THEN trimEnd(SubSeq(s, 1, Len(s) - 1))
    ELSE s

trim(s) == trimEnd(trimStart(s))

\* All strings over alphabet A of length at most n.
StringsUpTo(A, n) == UNION {[1..k -> A] : k \in 0..n}

(***************************************************************************)
(* parseCSVLine                                                            *)
(***************************************************************************)
\* One iteration of the for loop, the loop's own i++ included, on the
\* locals st = [i, current, inQuotes, result].
LoopBodySplitsInQuotes(ln, d, st) ==
    LET char == ln[st.i + 1]
        nextChar == IF st.i + 2 <= Len(ln) THEN ln[st.i + 2] ELSE Undefined
    IN  IF char = Quote
        THEN IF st.inQuotes /\ nextChar = Quote
             THEN [st EXCEPT !.current = Append(@, Quote), !.i = @ + 2]
             ELSE [st EXCEPT !.inQuotes = ~@, !.i = @ + 1]
        ELSE IF char = d
             THEN [st EXCEPT !.result = Append(@, trim(st.current)),
                             !.current = <<>>, !.i = @ + 1]
             ELSE [st EXCEPT !.current = Append(@, char), !.i = @ + 1]

LoopBodyNoEscape(ln, d, st) ==
    LET char == ln[st.i + 1]
    IN  IF char = Quote
        THEN [st EXCEPT !.inQuotes = ~@, !.i = @ + 1]
        ELSE IF char = d /\ ~st.inQuotes
             THEN [st EXCEPT !.result = Append(@, trim(st.current)),
                             !.current = <<>>, !.i = @ + 1]
             ELSE [st EXCEPT !.current = Append(@, char), !.i = @ + 1]

LoopBody(ln, d, st) ==
    LET char == ln[st.i + 1]
        nextChar == IF st.i + 2 <= Len(ln) THEN ln[st.i + 2] ELSE Undefined
    IN  IF char = Quote
        THEN IF st.inQuotes /\ nextChar = Quote
             THEN [st EXCEPT !.current = Append(@, Quote), !.i = @ + 2]
             ELSE [st EXCEPT !.inQuotes = ~@, !.i = @ + 1]
        ELSE IF char = d /\ ~st.inQuotes
             THEN [st EXCEPT !.result = Append(@, trim(st.current)),
                             !.current = <<>>, !.i = @ + 1]
             ELSE [st EXCEPT !.current = Append(@, char), !.i = @ + 1]

TokStart == [i |-> 0, current |-> <<>>, inQuotes |-> FALSE, result |-> <<>>]

RECURSIVE TokLoop(_, _, _)
TokLoop(ln, d, st) ==
    IF st.i < Len(ln) THEN TokLoop(ln, d, LoopBody(ln, d, st)) ELSE st

\* The function as a whole: the loop, then the push of the last field.
parseCSVLine(ln, d) ==
    LET st == TokLoop(ln, d, TokStart)
    IN  Append(st.result, trim(st.current))

\* The inputs of the tokenizer: every short line over TokAlphabet and the two
\* lines of the specification's examples.
TokAlphabet == {"a", " ", Quote, ",", ";"}
TokDelimiters == {",", ";"}
ExampleQuoted == <<"a", ",", Quote, "b", ",", "c", Quote, ",", "d">>
ExampleEscaped ==
    <<Quote, "h", "e", " ", "s", "a", "i", "d", " ", Quote, Quote, "h", "i",
      Quote, Quote, Quote, ",", "o", "k">>
TokLines == StringsUpTo(TokAlphabet, MaxLineLen) \cup {ExampleQuoted, ExampleEscaped}

TokIdle ==
    /\ line = <<>> /\ delimiter = "," /\ i = 0 /\ current = <<>>
    /\ inQuotes = FALSE /\ result = <<>> /\ tpc = "idle"

TokInit ==
    /\ line \in TokLines
    /\ delimiter \in TokDelimiters
    /\ i = TokStart.i
    /\ current = TokStart.current
    /\ inQuotes = TokStart.inQuotes
    /\ result = TokStart.result
    /\ tpc = "loop"

TokLocals == [i |-> i, current |-> current, inQuotes |-> inQuotes, result |-> result]

TokSet(st) ==
    /\ i' = st.i
    /\ current' = st.current
    /\ inQuotes' = st.inQuotes
    /\ result' = st.result
    /\ UNCHANGED <<line, delimiter, tpc>>

TokAtQuote == tpc = "loop" /\ i < Len(line) /\ line[i + 1] = Quote
TokAtEscape == TokAtQuote /\ inQuotes /\ i + 2 <= Len(line) /\ line[i + 2] = Quote

\* if (char === '"') { if (inQuotes && nextChar === '"') ... }
TokEscapedQuote ==
    /\ TokAtEscape
    /\ TokSet(LoopBody(line, delimiter, TokLocals))
    /\ UNCHANGED <<detVars, sanVars, parseVars, reqVars, tabVars, raceVars, bulkVars, clockVars, bgVars>>

\* ... else { inQuotes = !inQuotes; }
TokToggleQuote ==
    /\ TokAtQuote /\ ~TokAtEscape
    /\ TokSet(LoopBody(line, delimiter, TokLocals))
    /\ UNCHANGED <<detVars, sanVars, parseVars, reqVars, tabVars, raceVars, bulkVars, clockVars, bgVars>>

\* else if (char === delimiter && !inQuotes)
TokDelimiter ==
    /\ tpc = "loop" /\ i < Len(line)
    /\ line[i + 1] # Quote /\ line[i + 1] = delimiter /\ ~inQuotes
    /\ TokSet(LoopBody(line, delimiter, TokLocals))
    /\ UNCHANGED <<detVars, sanVars, parseVars, reqVars, tabVars, raceVars, bulkVars, clockVars, bgVars>>

\* else { current += char; }
TokAppend ==
    /\ tpc = "loop" /\ i < Len(line)
    /\ line[i + 1] # Quote /\ ~(line[i + 1] = delimiter /\ ~inQuotes)
    /\ TokSet(LoopBody(line, delimiter, TokLocals))
    /\ UNCHANGED <<detVars, sanVars, parseVars, reqVars, tabVars, raceVars, bulkVars, clockVars, bgVars>>

\* result.push(current.trim()); return result;
TokReturn ==
    /\ tpc = "loop" /\ i >= Len(line)
    /\ result' = Append(result, trim(current))
    /\ tpc' = "returned"
    /\ UNCHANGED <<line, delimiter, i, current, inQuotes>>
    /\ UNCHANGED <<detVars, sanVars, parseVars, reqVars, tabVars, raceVars, bulkVars, clockVars, bgVars>>

TokNext == TokEscapedQuote \/ TokToggleQuote \/ TokDelimiter \/ TokAppend \/ TokReturn

(***************************************************************************)
(* detectDelimiter                                                         *)
(***************************************************************************)
delimiters == <<",", ";", TAB, "|">>

\* csvContent.split('\n')[0]
RECURSIVE FirstLine(_)
FirstLine(s) ==
    IF s = <<>> \/ Head(s) = NL THEN <<>> ELSE <<Head(s)>> \o FirstLine(Tail(s))

\* firstLine.match(new RegExp('\\' + delimiter, 'g')): the escaped character
\* matches itself, so the matches are the occurrences of the character.
CountMatches(s, c) == Cardinality({p \in 1..Len(s) : s[p] = c})

\* One iteration of the for-of loop on the locals st = [bestDelimiter, maxCount]
\* for the candidate d.
DetBodyLastWins(firstLine, d, st) ==
    LET count == CountMatches(firstLine, d)
    IN  IF count >= st.maxCount
        THEN [bestDelimiter |-> d, maxCount |-> count]
        ELSE st

DetBody(firstLine, d, st) ==
    LET count == CountMatches(firstLine, d)
    IN  IF count > st.maxCount
        THEN [bestDelimiter |-> d, maxCount |-> count]
        ELSE st

DetStart == [bestDelimiter |-> ",", maxCount |-> 0]

RECURSIVE DetLoop(_, _, _)
DetLoop(firstLine, idx, st) ==
    IF idx < Len(delimiters)
    THEN DetLoop(firstLine, idx + 1, DetBody(firstLine, delimiters[idx + 1], st))
    ELSE st

detectDelimiter(content) ==
    DetLoop(FirstLine(content), 0, DetStart).bestDelimiter

DetAlphabet == {",", ";", TAB, "|", "a", NL}
ExampleDetect == <<"a", ";", "b", ";", "c", ",", "d">>
DetContents == StringsUpTo(DetAlphabet, MaxDetLen) \cup {ExampleDetect}

DetIdle ==
    /\ detContent = <<>> /\ detIdx = 0 /\ bestDelimiter = "," /\ maxCount = 0
    /\ dpc = "idle"

DetInit ==
    /\ detContent \in DetContents
    /\ detIdx = 0
    /\ bestDelimiter = DetStart.bestDelimiter
    /\ maxCount = DetStart.maxCount
    /\ dpc = "loop"

DetLocals == [bestDelimiter |-> bestDelimiter, maxCount |-> maxCount]
DetCandidate == delimiters[detIdx + 1]
DetCount == CountMatches(FirstLine(detContent), DetCandidate)

DetSet(st) ==
    /\ bestDelimiter' = st.bestDelimiter
    /\ maxCount' = st.maxCount
    /\ detIdx' = detIdx + 1
    /\ UNCHANGED <<detContent, dpc>>

\* if (count > maxCount) { maxCount = count; bestDelimiter = delimiter; }
DetTakeCandidate ==
    /\ dpc = "loop" /\ detIdx < Len(delimiters)
    /\ DetCount > maxCount
    /\ DetSet(DetBody(FirstLine(detContent), DetCandidate, DetLocals))
    /\ UNCHANGED <<tokVars, sanVars, parseVars, reqVars, tabVars, raceVars, bulkVars, clockVars, bgVars>>

DetKeepBest ==
    /\ dpc = "loop" /\ detIdx < Len(delimiters)
    /\ ~(DetCount > maxCount)
    /\ DetSet(DetBody(FirstLine(detContent), DetCandidate, DetLocals))
    /\ UNCHANGED <<tokVars, sanVars, parseVars, reqVars, tabVars, raceVars, bulkVars, clockVars, bgVars>>

\* return bestDelimiter;
DetReturn ==
    /\ dpc = "loop" /\ detIdx >= Len(delimiters)
    /\ dpc' = "returned"
    /\ UNCHANGED <<detContent, detIdx, bestDelimiter, maxCount>>
    /\ UNCHANGED <<tokVars, sanVars, parseVars, reqVars, tabVars, raceVars, bulkVars, clockVars, bgVars>>

DetNext == DetTakeCandidate \/ DetKeepBest \/ DetReturn

(***************************************************************************)
(* The sanitizer: the three replace statements of handleProcessCSV and     *)
(* handleCompleteUpload.                                                   *)
(***************************************************************************)
FileUriPrefix == <<"f", "i", "l", "e", ":", "/", "/", "/">>
FileScheme == <<"f", "i", "l", "e", ":", "/", "/">>
Http == <<"h", "t", "t", "p", ":", "/", "/">>
Https == <<"h", "t", "t", "p", "s", ":", "/", "/">>

\* Whether pre occurs in s at position p (1-based).
StartsWithAt(s, p, pre) ==
    /\ p + Len(pre) - 1 <= Len(s)
    /\ SubSeq(s, p, p + Len(pre) - 1) = pre

\* The character class [^\s\n\r,].
IsUriChar(c) == ~IsWhite(c) /\ c # ","

\* The end of a greedy [^\s\n\r,]* from position p: the first position at or
\* after p that holds no character of the class.
RECURSIVE UriEnd(_, _)
UriEnd(s, p) == IF p <= Len(s) /\ IsUriChar(s[p]) THEN UriEnd(s, p + 1) ELSE p

RECURSIVE RemovePrefixedFrom(_, _, _)
RemovePrefixedFrom(s, p, pre) ==
    IF p > Len(s) THEN <<>>
    ELSE IF StartsWithAt(s, p, pre)
         THEN RemovePrefixedFrom(s, UriEnd(s, p + Len(pre)), pre)
         ELSE <<s[p]>> \o RemovePrefixedFrom(s, p + 1, pre)

\* csvContent.replace(/file:\/\/\/[^\s\n\r,]*/g, '')
RemoveFileUris(s) == RemovePrefixedFrom(s, 1, FileUriPrefix)

\* s.split('\n'): the lines of s, at least one.
RECURSIVE Split(_)
Split(s) ==
    IF \A p \in 1..Len(s) : s[p] # NL THEN <<s>>
    ELSE LET p == CHOOSE q \in 1..Len(s) : s[q] = NL /\ \A r \in 1..(q - 1) : s[r] # NL
         IN  <<SubSeq(s, 1, p - 1)>> \o Split(SubSeq(s, p + 1, Len(s)))

RECURSIVE Join(_)
Join(ls) ==
    IF Len(ls) = 0 THEN <<>>
    ELSE IF Len(ls) = 1 THEN ls[1]
    ELSE ls[1] \o <<NL>> \o Join(Tail(ls))

\* A whole line matched by ^https?:\/\/[^\s\n\r,]*$
MatchesUrlLine(l) ==
    \/ StartsWithAt(l, 1, Http) /\ \A p \in (Len(Http) + 1)..Len(l) : IsUriChar(l[p])
    \/ StartsWithAt(l, 1, Https) /\ \A p \in (Len(Https) + 1)..Len(l) : IsUriChar(l[p])

\* s.replace(/^https?:\/\/[^\s\n\r,]*$/gm, ''): with the m flag ^ and $ match
\* at the line breaks, and the class holds no line break, so a match is a
\* whole line; the line break itself stays.
RemoveUrlLines(s) ==
    LET ls == Split(s)
    IN  Join([k \in 1..Len(ls) |-> IF MatchesUrlLine(ls[k]) THEN <<>> ELSE ls[k]])

RECURSIVE WhiteRunEnd(_, _)
WhiteRunEnd(s, p) == IF p <= Len(s) /\ IsWhite(s[p]) THEN WhiteRunEnd(s, p + 1) ELSE p

\* s.replace(/\n\s*\n/g, '\n'): at a newline, the greedy \s* takes the run of
\* white space after it and gives back to the run's last newline; the match
\* (if the run holds a newline) becomes one newline and the scan goes on
\* after it.
RECURSIVE CollapseFrom(_, _)
CollapseFrom(s, p) ==
    IF p > Len(s) THEN <<>>
    ELSE IF s[p] = NL
         THEN LET e == WhiteRunEnd(s, p + 1)
                  nls == {q \in (p + 1)..(e - 1) : s[q] = NL}
              IN  IF nls # {}
                  THEN <<NL>> \o CollapseFrom(s, (CHOOSE q \in nls : \A r \in nls : r <= q) + 1)
                  ELSE <<NL>> \o CollapseFrom(s, p + 1)
         ELSE <<s[p]>> \o CollapseFrom(s, p + 1)

\* s.replace(/\n\s*\n/g, '\n').trim()
CollapseBlankLines(s) == trim(CollapseFrom(s, 1))

\* The three statements in the handlers' order.
sanitize(s) == CollapseBlankLines(RemoveUrlLines(RemoveFileUris(s)))

\* The inputs of the sanitizer: the texts made of at most MaxPieces pieces.
SanPieces ==
    {<<"a">>, <<",">>, <<" ">>, <<NL>>, FileScheme, FileUriPrefix, Http, Https}

RECURSIVE Concat(_)
Concat(ps) == IF ps = <<>> THEN <<>> ELSE Head(ps) \o Concat(Tail(ps))

SanContents == {Concat(ps) : ps \in StringsUpTo(SanPieces, MaxPieces)}

SanIdle == csvContent = <<>> /\ sanitizedContent = <<>> /\ spc = "idle"

SanInit ==
    /\ csvContent \in SanContents
    /\ sanitizedContent = csvContent
    /\ spc = "start"

\* sanitizedContent = csvContent.replace(/file:\/\/\/[^\s\n\r,]*/g, '');
SanRemoveFileUris ==
    /\ spc = "start"
    /\ sanitizedContent' = RemoveFileUris(csvContent)
    /\ spc' = "fileUrisRemoved"
    /\ UNCHANGED <<csvContent, tokVars, detVars, parseVars, reqVars, tabVars, raceVars, bulkVars, clockVars, bgVars>>

\* sanitizedContent = sanitizedContent.replace(/^https?:\/\/[^\s\n\r,]*$/gm, '');
SanRemoveUrlLines ==
    /\ spc = "fileUrisRemoved"
    /\ sanitizedContent' = RemoveUrlLines(sanitizedContent)
    /\ spc' = "urlLinesRemoved"
    /\ UNCHANGED <<csvContent, tokVars, detVars, parseVars, reqVars, tabVars, raceVars, bulkVars, clockVars, bgVars>>

\* sanitizedContent = sanitizedContent.replace(/\n\s*\n/g, '\n').trim();
SanCollapseBlankLines ==
    /\ spc = "urlLinesRemoved"
    /\ sanitizedContent' = CollapseBlankLines(sanitizedContent)
    /\ spc' = "sanitized"
    /\ UNCHANGED <<csvContent, tokVars, detVars, parseVars, reqVars, tabVars, raceVars, bulkVars, clockVars, bgVars>>

SanNext == SanRemoveFileUris \/ SanRemoveUrlLines \/ SanCollapseBlankLines

(***************************************************************************)
(* parseCSVContent                                                         *)
(***************************************************************************)
\* const maxPreviewRows = isPreview ? 10 : Infinity;
MaxPreviewRows == 10

\* null, and a value that is not a string (typeof csvContent !== 'string'):
\* neither is equal to a value made of one-character strings.
Null == << <<"null">> >>
NotAString == <<"object">>

\* array.slice(0, n)
SliceTo(s, n) == SubSeq(s, 1, IF n < Len(s) THEN n ELSE Len(s))

\* options.delimiter || ',' and options.headerHandling || 'use'
OrDefaultAlways(v, dflt) == dflt

OrDefault(v, dflt) == IF v = Undefined THEN dflt ELSE v

\* Lines 19-22: the delimiter the lines are tokenized with.
FinalDelimiter(content, opts) ==
    IF OrDefault(opts.delimiter, ",") = "auto"
    THEN detectDelimiter(content)
    ELSE OrDefault(opts.delimiter, ",")

NonEmpty(l) == Len(l) > 0

\* Lines 24-30: split, trim each line, drop the empty ones.
RetainedLines(content, opts) ==
    LET split == Split(content)
        trimmed == IF opts.trimWhitespace
                   THEN [k \in 1..Len(split) |-> trim(split[k])]
                   ELSE split
    IN  IF opts.skipEmptyRows THEN SelectSeq(trimmed, NonEmpty) ELSE trimmed

\* Lines 33-42: the rows of the lines that are processed.
ParsedRows(ls, delim, opts) ==
    LET processLines == IF opts.isPreview THEN SliceTo(ls, MaxPreviewRows + 1) ELSE ls
        parsed == [k \in 1..Len(processLines) |-> parseCSVLine(processLines[k], delim)]
    IN  SelectSeq(parsed, NonEmpty)

\* Lines 44-113: header handling and the value returned.
HeaderStageKeepsFirstRow(rws, allRowCount, delim, opts) ==
    LET headerHandling == OrDefault(opts.headerHandling, "use")
        useFirst == headerHandling = "use" /\ Len(rws) > 0
        headers == IF useFirst THEN rws[1] ELSE Null
        dataRows == IF useFirst THEN Tail(rws) ELSE rws
        sheetData == IF headers # Null /\ Len(headers) > 0
                     THEN <<headers>> \o dataRows
                     ELSE dataRows
    IN  [success |-> TRUE,
         headers |-> headers,
         rows |-> dataRows,
         sheetData |-> sheetData,
         totalRows |-> Len(dataRows),
         delimiter |-> delim,
         originalRowCount |-> allRowCount,
         columnCount |-> IF headers # Null THEN Len(headers)
                         ELSE IF Len(dataRows) > 0 THEN Len(dataRows[1]) ELSE 0,
         hasHeaders |-> headerHandling = "use"]

HeaderStageDataOnly(rws, allRowCount, delim, opts) ==
    LET headerHandling == OrDefault(opts.headerHandling, "use")
        useFirst == headerHandling = "use" /\ Len(rws) > 0
        skipFirst == ~useFirst /\ headerHandling = "skip" /\ Len(rws) > 0
        headers == IF useFirst THEN rws[1] ELSE Null
        dataRows == IF useFirst \/ skipFirst THEN Tail(rws) ELSE rws
    IN  [success |-> TRUE,
         headers |-> headers,
         rows |-> dataRows,
         sheetData |-> dataRows,
         totalRows |-> Len(dataRows),
         delimiter |-> delim,
         originalRowCount |-> allRowCount,
         columnCount |-> IF headers # Null THEN Len(headers)
                         ELSE IF Len(dataRows) > 0 THEN Len(dataRows[1]) ELSE 0,
         hasHeaders |-> headerHandling = "use"]

HeaderStage(rws, allRowCount, delim, opts) ==
    LET headerHandling == OrDefault(opts.headerHandling, "use")
        useFirst == headerHandling = "use" /\ Len(rws) > 0
        skipFirst == ~useFirst /\ headerHandling = "skip" /\ Len(rws) > 0
        headers == IF useFirst THEN rws[1] ELSE Null
        dataRows == IF useFirst \/ skipFirst THEN Tail(rws) ELSE rws
        sheetData == IF headers # Null /\ Len(headers) > 0
                     THEN <<headers>> \o dataRows
                     ELSE dataRows
    IN  [success |-> TRUE,
         headers |-> headers,
         rows |-> dataRows,
         sheetData |-> sheetData,
         totalRows |-> Len(dataRows),
         delimiter |-> delim,
         originalRowCount |-> allRowCount,
         columnCount |-> IF headers # Null THEN Len(headers)
                         ELSE IF Len(dataRows) > 0 THEN Len(dataRows[1]) ELSE 0,
         hasHeaders |-> headerHandling = "use"]

\* Lines 115-124: the value returned from the catch block. (sheetData,
\* delimiter and metadata are absent from it; they are given neutral values.)
ParseFailure ==
    [success |-> FALSE,
     headers |-> Null,
     rows |-> <<>>,
     sheetData |-> <<>>,
     totalRows |-> 0,
     delimiter |-> Undefined,
     originalRowCount |-> 0,
     columnCount |-> 0,
     hasHeaders |-> FALSE]

\* csvContent.split is not a function: the TypeError of a content that is no
\* string, thrown at line 21 or 24 and caught at line 115.
Throws(content) == content = NotAString

\* The function as a whole.
parseCSVContent(content, opts) ==
    IF Throws(content) THEN ParseFailure
    ELSE LET delim == FinalDelimiter(content, opts)
             ls == RetainedLines(content, opts)
         IN  HeaderStage(ParsedRows(ls, delim, opts), Len(ls), delim, opts)

\* The inputs of the parser: the texts of at most MaxRows lines, each one of
\* ParseLineChoices, the example of the specification, a text of more lines
\* than a preview processes, and a content that is no string.
ParseLineChoices ==
    {<<>>, <<" ">>, <<"a">>, <<"a", ",", "b">>, <<"b", ";", "c">>}
ExampleTable ==
    <<"h", "1", ",", "h", "2", NL, "1", ",", "2", NL, "3", ",", "4">>
LongTable == Join([k \in 1..(MaxPreviewRows + 2) |-> <<"a", ",", "b">>])
ParseContents ==
    {Join(ls) : ls \in StringsUpTo(ParseLineChoices, MaxRows) \ {<<>>}}
        \cup {ExampleTable, LongTable, NotAString}

ParseOptions ==
    [delimiter : {Undefined, "auto"},
     headerHandling : {Undefined, "use", "skip", "none"},
     trimWhitespace : {TRUE},
     skipEmptyRows : {TRUE},
     isPreview : BOOLEAN]
    \cup
    [delimiter : {Undefined},
     headerHandling : {"use", "skip", "none"},
     trimWhitespace : BOOLEAN,
     skipEmptyRows : BOOLEAN,
     isPreview : {FALSE}]

NoOptions ==
    [delimiter |-> Undefined, headerHandling |-> Undefined,
     trimWhitespace |-> TRUE, skipEmptyRows |-> TRUE, isPreview |-> FALSE]

ParseIdle ==
    /\ parseContent = <<>> /\ options = NoOptions /\ lines = <<>>
    /\ finalDelimiter = "," /\ rows = <<>> /\ csvResult = ParseFailure
    /\ ppc = "idle"

ParseInit ==
    /\ parseContent \in ParseContents
    /\ options \in ParseOptions
    /\ lines = <<>>
    /\ finalDelimiter = ","
    /\ rows = <<>>
    /\ csvResult = ParseFailure
    /\ ppc = "start"

\* Lines 12-34.
ParseSplitLines ==
    /\ ppc = "start" /\ ~Throws(parseContent)
    /\ finalDelimiter' = FinalDelimiter(parseContent, options)
    /\ lines' = RetainedLines(parseContent, options)
    /\ ppc' = "split"
    /\ UNCHANGED <<parseContent, options, rows, csvResult>>
    /\ UNCHANGED <<tokVars, detVars, sanVars, reqVars, tabVars, raceVars, bulkVars, clockVars, bgVars>>

\* Lines 36-42.
ParseTokenize ==
    /\ ppc = "split"
    /\ rows' = ParsedRows(lines, finalDelimiter, options)
    /\ ppc' = "tokenized"
    /\ UNCHANGED <<parseContent, options, lines, finalDelimiter, csvResult>>
    /\ UNCHANGED <<tokVars, detVars, sanVars, reqVars, tabVars, raceVars, bulkVars, clockVars, bgVars>>

\* Lines 44-113.
ParseReturn ==
    /\ ppc = "tokenized"
    /\ csvResult' = HeaderStage(rows, Len(lines), finalDelimiter, options)
    /\ ppc' = "returned"
    /\ UNCHANGED <<parseContent, options, lines, finalDelimiter, rows>>
    /\ UNCHANGED <<tokVars, detVars, sanVars, reqVars, tabVars, raceVars, bulkVars, clockVars, bgVars>>

\* Lines 115-124.
ParseCatch ==
    /\ ppc = "start" /\ Throws(parseContent)
    /\ csvResult' = ParseFailure
    /\ ppc' = "returned"
    /\ UNCHANGED <<parseContent, options, lines, finalDelimiter, rows>>
    /\ UNCHANGED <<tokVars, detVars, sanVars, reqVars, tabVars, raceVars, bulkVars, clockVars, bgVars>>

ParseNext == ParseSplitLines \/ ParseTokenize \/ ParseReturn \/ ParseCatch

(***************************************************************************)
(* The CSV API: handler, handleProcessCSV, handleCompleteUpload and        *)
(* uploadToGoogleSheets.                                                   *)
(***************************************************************************)
\* A request field that is absent ('' for the content, which !csvContent
\* rejects like undefined).
Missing == <<>>

\* The usage row before the handler has read it.
NotRead == "not read"

\* {...processingOptions, isPreview: b}
WithPreview(opts, b) == [opts EXCEPT !.isPreview = b]

\* response.ok
IsOk(status) == status \in 200..299

\* What a fetch can end in: an HTTP status, or a rejected promise.
Thrown == 0
FetchOutcomes == {200, 401, 403, 404, 500, Thrown}

\* What a success reports of the write: the rows uploaded and the spreadsheet
\* whose URL is returned.
NoUpload == [rowsUploaded |-> 0, spreadsheetUrl |-> Undefined]
Upload(n, id) == [rowsUploaded |-> n, spreadsheetUrl |-> id]

NoUploadResult ==
    [success |-> FALSE, error |-> "none", authExpired |-> FALSE, upload |-> NoUpload]
Body(success, error, needsReauth, needsUpgrade, upload) ==
    [success |-> success, error |-> error, needsReauth |-> needsReauth,
     needsUpgrade |-> needsUpgrade, upload |-> upload]
NoBody == Body(FALSE, "none", FALSE, FALSE, NoUpload)

Call(api, status) == [api |-> api, status |-> status]

\* The requests: well-formed ones with every content and option of the
\* bounded sets, and one request for each way of being rejected early.
HandlerLineChoices == {<<>>, <<"a">>, <<"a", ",", "b">>}
\* A content with a file URI on a line of its own.
ExampleWithFileUri == <<"a", ",", "b", NL>> \o FileUriPrefix \o <<"x">>
HandlerContents ==
    {Join(ls) : ls \in StringsUpTo(HandlerLineChoices, MaxUploadRows) \ {<<>>}}
        \cup {<<" ">>, ExampleWithFileUri, NotAString}

HandlerOptions ==
    [delimiter : {Undefined},
     headerHandling : {Undefined, "use", "skip", "none"},
     trimWhitespace : {TRUE},
     skipEmptyRows : {TRUE},
     isPreview : {FALSE}]

NoUploadOptions == [mode |-> Undefined, autoFormat |-> FALSE]
\* mode "replace-sheet" is a directive uploadToGoogleSheets does not know.
UploadOptions ==
    [mode : {Undefined, "append", "replace", "replace-sheet"}, autoFormat : BOOLEAN]

GoodRequest(action, popts, uopts) ==
    [method |-> "POST", apiKey |-> "valid", action |-> action,
     spreadsheetId |-> "sheet", googleToken |-> "token",
     processingOptions |-> popts, uploadOptions |-> uopts]

DefaultRequest == GoodRequest("complete-upload", NoOptions, NoUploadOptions)

Requests ==
    {GoodRequest("process-csv", po, NoUploadOptions) : po \in HandlerOptions}
        \cup {GoodRequest("complete-upload", po, uo) :
                po \in HandlerOptions, uo \in UploadOptions}

RejectedRequests ==
    {[DefaultRequest EXCEPT !.method = "OPTIONS"],
     [DefaultRequest EXCEPT !.method = "GET"],
     [DefaultRequest EXCEPT !.apiKey = "missing"],
     [DefaultRequest EXCEPT !.apiKey = "invalid"],
     [DefaultRequest EXCEPT !.action = Undefined],
     [DefaultRequest EXCEPT !.action = "other"],
     [DefaultRequest EXCEPT !.spreadsheetId = Undefined],
     [DefaultRequest EXCEPT !.googleToken = Undefined]}

\* The tab before the request: empty, or three rows of an earlier upload.
OldRows == << << <<"x">>, <<"x">>, <<"x">> >>, << <<"y">> >>, << <<"z">> >> >>
SheetContents == {<<>>, OldRows}

\* A tab with a cell in column 27 (AA) of its first row.
ClearedColumns == 26
Blank == <<>>
WideRows == << [c \in 1..(ClearedColumns + 1) |-> IF c = 1 THEN <<"x">>
                                                 ELSE IF c > ClearedColumns THEN <<"w">>
                                                 ELSE Blank] >>

\* The remote service: values.clear empties the tab, values.update at A1 writes
\* the cells of the rows it is given and leaves every other cell, values.append
\* adds the rows after the last one.  A call that is not answered with 2xx
\* has changed nothing.
Max(a, b) == IF a >= b THEN a ELSE b
RowAt(sheet, k) == IF k <= Len(sheet) THEN sheet[k] ELSE <<>>
OverRow(old, new) == new \o SubSeq(old, Len(new) + 1, Len(old))
Cleared(sheet) == <<>>

\* A tab is kept without blank cells at the end of a row and without empty
\* rows at its end.
RECURSIVE DropBlankTail(_)
DropBlankTail(s) ==
    IF s = <<>> THEN s
    ELSE IF s[Len(s)] = Blank THEN DropBlankTail(SubSeq(s, 1, Len(s) - 1))
    ELSE s
TabOf(cells) == DropBlankTail([k \in 1..Len(cells) |-> DropBlankTail(cells[k])])

\* values.clear of range A:Z blanks the cells of the first 26 columns.
ClearedAToZ(sheet) ==
    TabOf([k \in 1..Len(sheet) |->
              [c \in 1..Len(sheet[k]) |->
                  IF c <= ClearedColumns THEN Blank ELSE sheet[k][c]]])
Updated(sheet, data) ==
    [k \in 1..Max(Len(sheet), Len(data)) |->
        IF k <= Len(data) THEN OverRow(RowAt(sheet, k), data[k]) ELSE sheet[k]]
Appended(sheet, data) == sheet \o data

ReqIdle ==
    /\ req = DefaultRequest /\ pc = "idle" /\ uploadResult = NoUploadResult
    /\ calls = <<>> /\ resStatus = 0 /\ resBody = NoBody /\ sheetRows = <<>>
    /\ usageRow = NotRead

ReqInit ==
    /\ \/ req \in Requests /\ csvContent \in HandlerContents \cup {Missing}
       \/ req \in RejectedRequests /\ csvContent = <<"a">>
    /\ sanitizedContent = <<>>
    /\ spc = "idle"
    /\ csvResult = ParseFailure
    /\ pc = "received"
    /\ uploadResult = NoUploadResult
    /\ calls = <<>>
    /\ resStatus = 0
    /\ resBody = NoBody
    /\ sheetRows \in SheetContents \cup {WideRows}
    /\ usageRow = NotRead

ParseLocalsIdle ==
    /\ parseContent = <<>> /\ options = NoOptions /\ lines = <<>>
    /\ finalDelimiter = "," /\ rows = <<>> /\ ppc = "idle"

\* res.status(status).json(body): the request is answered.
Respond(status, success, error, needsReauth, needsUpgrade) ==
    /\ resStatus' = status
    /\ resBody' = Body(success, error, needsReauth, needsUpgrade, NoUpload)
    /\ pc' = "done"

HandlerLocals ==
    <<tokVars, detVars, parseContent, options, lines, finalDelimiter, rows, ppc, spc, tabVars, raceVars, bulkVars, clockVars, bgVars>>
HandlerRest == <<HandlerLocals, usageRow>>

\* handler, lines 181-241: the checks before an action is run.
EntryError(r) ==
    IF r.method = "OPTIONS" THEN [status |-> 200, error |-> "none"]
    ELSE IF r.method # "POST" THEN [status |-> 405, error |-> "Method not allowed - use POST"]
    ELSE IF r.apiKey = "missing" THEN [status |-> 401, error |-> "Authorization header required"]
    ELSE IF r.apiKey # "valid" THEN [status |-> 401, error |-> "Invalid API key"]
    ELSE IF r.action = Undefined THEN [status |-> 400, error |-> "Action parameter required"]
    ELSE IF r.action \notin {"process-csv", "complete-upload"}
         THEN [status |-> 400, error |-> "Unknown action"]
    ELSE [status |-> 0, error |-> "none"]

HandlerReject ==
    /\ pc = "received"
    /\ EntryError(req).status # 0
    /\ Respond(EntryError(req).status, FALSE, EntryError(req).error, FALSE, FALSE)
    /\ UNCHANGED <<req, sheetRows, csvContent, sanitizedContent, csvResult, uploadResult, calls>>
    /\ UNCHANGED HandlerRest

HandlerRoute ==
    /\ pc = "received"
    /\ EntryError(req).status = 0
    /\ pc' = req.action
    /\ UNCHANGED <<req, sheetRows, csvContent, sanitizedContent, csvResult, uploadResult, calls,
                   resStatus, resBody>>
    /\ UNCHANGED HandlerRest

\* The sanitizing block of both handlers (lines 276-284 and 382-390).
SanitizedForSkips(content) == content

SanitizedFor(content) == IF content = NotAString THEN content ELSE sanitize(content)

\* handleProcessCSV, lines 256-261.
PreviewNoContent ==
    /\ pc = "process-csv"
    /\ csvContent = Missing
    /\ Respond(400, FALSE, "CSV content is required", FALSE, FALSE)
    /\ UNCHANGED <<req, sheetRows, csvContent, sanitizedContent, csvResult, uploadResult, calls>>
    /\ UNCHANGED HandlerRest

\* handleProcessCSV, lines 275-290.
PreviewParse ==
    /\ pc = "process-csv"
    /\ csvContent # Missing
    /\ sanitizedContent' = SanitizedFor(csvContent)
    /\ csvResult' = parseCSVContent(sanitizedContent', WithPreview(req.processingOptions, TRUE))
    /\ pc' = "previewParsed"
    /\ UNCHANGED <<req, sheetRows, csvContent, uploadResult, calls, resStatus, resBody>>
    /\ UNCHANGED HandlerRest

\* handleProcessCSV, lines 292-294.
PreviewParseFailed ==
    /\ pc = "previewParsed"
    /\ ~csvResult.success
    /\ Respond(400, FALSE, "Failed to parse CSV", FALSE, FALSE)
    /\ UNCHANGED <<req, sheetRows, csvContent, sanitizedContent, csvResult, uploadResult, calls>>
    /\ UNCHANGED HandlerRest

\* handleProcessCSV, lines 296-325: the activity is logged and the preview sent.
PreviewRespond ==
    /\ pc = "previewParsed"
    /\ csvResult.success
    /\ Respond(200, TRUE, "none", FALSE, FALSE)
    /\ UNCHANGED <<req, sheetRows, csvContent, sanitizedContent, csvResult, uploadResult, calls>>
    /\ UNCHANGED HandlerRest

\* handleCompleteUpload, lines 331-362: the usage row the lookup returns.
UsageRows == {"none", "trial-active", "trial-expired", "paid-active", "paid-expired"}

UsageErrorNever(usage) == [status |-> 0, error |-> "none"]

UsageError(usage) ==
    IF usage = "none" THEN [status |-> 401, error |-> "User usage data not found"]
    ELSE IF usage = "trial-expired" THEN [status |-> 402, error |-> "Trial expired"]
    ELSE [status |-> 0, error |-> "none"]

UploadUsageRejected ==
    /\ pc = "complete-upload"
    /\ \E usage \in UsageRows :
          /\ UsageError(usage).status # 0
          /\ usageRow' = usage
          /\ Respond(UsageError(usage).status, FALSE, UsageError(usage).error,
                     FALSE, usage = "trial-expired")
    /\ UNCHANGED <<req, sheetRows, csvContent, sanitizedContent, csvResult, uploadResult, calls>>
    /\ UNCHANGED HandlerLocals

UploadUsageAccepted ==
    /\ pc = "complete-upload"
    /\ \E usage \in UsageRows : UsageError(usage).status = 0 /\ usageRow' = usage
    /\ pc' = "checkFields"
    /\ UNCHANGED <<req, sheetRows, csvContent, sanitizedContent, csvResult, uploadResult, calls,
                   resStatus, resBody>>
    /\ UNCHANGED HandlerLocals

\* handleCompleteUpload, lines 374-379.
FieldsMissing ==
    csvContent = Missing \/ req.spreadsheetId = Undefined \/ req.googleToken = Undefined

UploadFieldsMissing ==
    /\ pc = "checkFields"
    /\ FieldsMissing
    /\ Respond(400, FALSE, "CSV content, spreadsheet ID, and Google token are required",
               FALSE, FALSE)
    /\ UNCHANGED <<req, sheetRows, csvContent, sanitizedContent, csvResult, uploadResult, calls>>
    /\ UNCHANGED HandlerRest

\* handleCompleteUpload, lines 381-410.
UploadParse ==
    /\ pc = "checkFields"
    /\ ~FieldsMissing
    /\ sanitizedContent' = SanitizedFor(csvContent)
    /\ csvResult' = parseCSVContent(sanitizedContent', WithPreview(req.processingOptions, FALSE))
    /\ pc' = "uploadParsed"
    /\ UNCHANGED <<req, sheetRows, csvContent, uploadResult, calls, resStatus, resBody>>
    /\ UNCHANGED HandlerRest

\* handleCompleteUpload, lines 412-417.
UploadParseFailed ==
    /\ pc = "uploadParsed"
    /\ ~csvResult.success
    /\ Respond(400, FALSE, "CSV parsing failed", FALSE, FALSE)
    /\ UNCHANGED <<req, sheetRows, csvContent, sanitizedContent, csvResult, uploadResult, calls>>
    /\ UNCHANGED HandlerRest

\* handleCompleteUpload, lines 419-426.
UploadNoDataIsServerError ==
    /\ pc = "uploadParsed"
    /\ csvResult.success
    /\ Len(csvResult.sheetData) = 0
    /\ Respond(500, FALSE, "Internal server error", FALSE, FALSE)
    /\ UNCHANGED <<req, sheetRows, csvContent, sanitizedContent, csvResult, uploadResult, calls>>
    /\ UNCHANGED HandlerRest

UploadNoData ==
    /\ pc = "uploadParsed"
    /\ csvResult.success
    /\ Len(csvResult.sheetData) = 0
    /\ Respond(400, FALSE, "No data found in CSV file", FALSE, FALSE)
    /\ UNCHANGED <<req, sheetRows, csvContent, sanitizedContent, csvResult, uploadResult, calls>>
    /\ UNCHANGED HandlerRest

\* handleCompleteUpload, lines 438-445: uploadToGoogleSheets is entered (its
\* own rows.length === 0 test at line 522 cannot pass here).
UploadStart ==
    /\ pc = "uploadParsed"
    /\ csvResult.success
    /\ Len(csvResult.sheetData) > 0
    /\ pc' = "tokenTest"
    /\ UNCHANGED <<req, sheetRows, csvContent, sanitizedContent, csvResult, uploadResult, calls,
                   resStatus, resBody>>
    /\ UNCHANGED HandlerRest

\* The values uploadToGoogleSheets returns.
AuthExpiredResult ==
    [success |-> FALSE, error |-> "Google authentication expired", authExpired |-> TRUE,
     upload |-> NoUpload]
FailedResult(error) ==
    [success |-> FALSE, error |-> error, authExpired |-> FALSE, upload |-> NoUpload]
SuccessResult ==
    [success |-> TRUE, error |-> "none", authExpired |-> FALSE,
     upload |-> Upload(Len(csvResult.sheetData), req.spreadsheetId)]

\* uploadToGoogleSheets returns r: the handler goes on at line 447.
Return(r) ==
    /\ uploadResult' = r
    /\ pc' = "uploadReturned"

\* Lines 529-541: what follows the answer to the token test.
AfterTokenTestIgnoresStatus(status) ==
    IF status = Thrown THEN Return(FailedResult("fetch failed"))
    ELSE pc' = "getSpreadsheet" /\ UNCHANGED uploadResult

AfterTokenTest(status) ==
    IF status = Thrown THEN Return(FailedResult("fetch failed"))
    ELSE IF ~IsOk(status) THEN Return(AuthExpiredResult)
    ELSE pc' = "getSpreadsheet" /\ UNCHANGED uploadResult

\* uploadToGoogleSheets, lines 529-541: the token test.
TokenTest ==
    /\ pc = "tokenTest"
    /\ \E status \in FetchOutcomes :
          /\ calls' = Append(calls, Call("userinfo", status))
          /\ AfterTokenTest(status)
    /\ UNCHANGED <<req, sheetRows, csvContent, sanitizedContent, csvResult, resStatus, resBody>>
    /\ UNCHANGED HandlerRest

\* uploadToGoogleSheets, lines 543-560: the spreadsheet lookup.
GetSpreadsheet ==
    /\ pc = "getSpreadsheet"
    /\ \E status \in FetchOutcomes :
          /\ calls' = Append(calls, Call("getSpreadsheet", status))
          /\ IF status = Thrown THEN Return(FailedResult("fetch failed"))
             ELSE IF ~IsOk(status)
                  THEN Return(FailedResult("Cannot access spreadsheet. Check permissions."))
             ELSE /\ pc' = IF req.uploadOptions.mode = "replace" THEN "clear" ELSE "append"
                  /\ UNCHANGED uploadResult
    /\ UNCHANGED <<req, sheetRows, csvContent, sanitizedContent, csvResult, resStatus, resBody>>
    /\ UNCHANGED HandlerRest

\* uploadToGoogleSheets, lines 568-578: the sheet is cleared; the answer is not
\* looked at.
ClearValues ==
    /\ pc = "clear"
    /\ \E status \in FetchOutcomes :
          /\ calls' = Append(calls, Call("clear", status))
          /\ sheetRows' = IF IsOk(status) THEN ClearedAToZ(sheetRows) ELSE sheetRows
          /\ IF status = Thrown THEN Return(FailedResult("fetch failed"))
             ELSE pc' = "put" /\ UNCHANGED uploadResult
    /\ UNCHANGED <<req, csvContent, sanitizedContent, csvResult, resStatus, resBody>>
    /\ UNCHANGED HandlerRest

\* Lines 613-627: what follows the answer to the write.
AfterWriteIgnoresStatus(status) ==
    IF status = Thrown THEN Return(FailedResult("fetch failed"))
    ELSE IF req.uploadOptions.autoFormat
         THEN pc' = "format" /\ UNCHANGED uploadResult
         ELSE Return(SuccessResult)

AfterWrite(status) ==
    IF status = Thrown THEN Return(FailedResult("fetch failed"))
    ELSE IF ~IsOk(status) THEN Return(FailedResult("Upload failed"))
    ELSE IF req.uploadOptions.autoFormat
         THEN pc' = "format" /\ UNCHANGED uploadResult
         ELSE Return(SuccessResult)

\* uploadToGoogleSheets, lines 580-594: the rows are put at A1.
PutValues ==
    /\ pc = "put"
    /\ \E status \in FetchOutcomes :
          /\ calls' = Append(calls, Call("put", status))
          /\ sheetRows' = IF IsOk(status) THEN Updated(sheetRows, csvResult.sheetData)
                                           ELSE sheetRows
          /\ AfterWrite(status)
    /\ UNCHANGED <<req, csvContent, sanitizedContent, csvResult, resStatus, resBody>>
    /\ UNCHANGED HandlerRest

\* uploadToGoogleSheets, lines 596-611: the rows are appended.
AppendValues ==
    /\ pc = "append"
    /\ \E status \in FetchOutcomes :
          /\ calls' = Append(calls, Call("append", status))
          /\ sheetRows' = IF IsOk(status) THEN Appended(sheetRows, csvResult.sheetData)
                                           ELSE sheetRows
          /\ AfterWrite(status)
    /\ UNCHANGED <<req, csvContent, sanitizedContent, csvResult, resStatus, resBody>>
    /\ UNCHANGED HandlerRest

\* applyAutoFormatting, lines 647-719: a lookup of the sheet id, then one
\* batchUpdate when the lookup answered; every failure is swallowed.
AutoFormat ==
    /\ pc = "format"
    /\ \E lookup \in FetchOutcomes :
          \/ /\ ~IsOk(lookup)
             /\ calls' = Append(calls, Call("getSheetId", lookup))
          \/ /\ IsOk(lookup)
             /\ \E sheetFound \in BOOLEAN, update \in FetchOutcomes :
                   calls' = IF sheetFound
                            THEN calls \o <<Call("getSheetId", lookup),
                                            Call("batchUpdate", update)>>
                            ELSE Append(calls, Call("getSheetId", lookup))
    /\ Return(SuccessResult)
    /\ UNCHANGED <<req, sheetRows, csvContent, sanitizedContent, csvResult, resStatus, resBody>>
    /\ UNCHANGED HandlerRest

\* handleCompleteUpload, lines 447-460: the answer to a failed upload.
FailureStatus(r) == IF r.authExpired THEN 401 ELSE 400

UploadFailed ==
    /\ pc = "uploadReturned"
    /\ ~uploadResult.success
    /\ Respond(FailureStatus(uploadResult), FALSE,
               IF FailureStatus(uploadResult) = 401
               THEN "Google authentication expired" ELSE "Upload failed",
               FailureStatus(uploadResult) = 401, FALSE)
    /\ UNCHANGED <<req, sheetRows, csvContent, sanitizedContent, csvResult, uploadResult, calls>>
    /\ UNCHANGED HandlerRest

\* handleCompleteUpload, lines 462-514: the usage counter, the log row and the
\* success response.
\* Supabase answers with { data, error }: a failed rpc or insert is an answer
\* with an error, never a rejected promise.
StoreOutcomes == {200, 500}

\* Lines 491-514: the response after the log row was inserted.
AfterLogFailsOnError(status) ==
    IF IsOk(status)
    THEN /\ resStatus' = 200
         /\ resBody' = Body(TRUE, "none", FALSE, FALSE, uploadResult.upload)
    ELSE /\ resStatus' = 500
         /\ resBody' = Body(FALSE, "Internal server error", FALSE, FALSE, NoUpload)

AfterLog(status) ==
    /\ resStatus' = 200
    /\ resBody' = Body(TRUE, "none", FALSE, FALSE, uploadResult.upload)

UploadSucceeded ==
    /\ pc = "uploadReturned"
    /\ uploadResult.success
    /\ \E usageStatus \in StoreOutcomes, logStatus \in StoreOutcomes :
          /\ calls' = calls \o <<Call("increment_usage", usageStatus),
                                 Call("insertLog", logStatus)>>
          /\ AfterLog(logStatus)
    /\ pc' = "done"
    /\ UNCHANGED <<req, sheetRows, csvContent, sanitizedContent, csvResult, uploadResult>>
    /\ UNCHANGED HandlerRest

Next ==
    \/ HandlerReject \/ HandlerRoute
    \/ PreviewNoContent \/ PreviewParse \/ PreviewParseFailed \/ PreviewRespond
    \/ UploadUsageRejected \/ UploadUsageAccepted
    \/ UploadFieldsMissing \/ UploadParse \/ UploadParseFailed \/ UploadNoData
    \/ UploadStart
    \/ TokenTest \/ GetSpreadsheet \/ ClearValues \/ PutValues \/ AppendValues
    \/ AutoFormat
    \/ UploadFailed \/ UploadSucceeded

(***************************************************************************)
(* The upload endpoint with four modes (src/unnamed/part_004): handler,    *)
(* uploadToGoogleSheets, replaceSheetContent, appendToSheet,               *)
(* replaceSpreadsheetContent and createNewSpreadsheetAndUpload.  It has no *)
(* sanitizer and no token test, and its parser has no header handling.     *)
(***************************************************************************)
\* parseCSVContent of the endpoint, lines 10-54: every retained line is a row.
ModesParseFailure == [success |-> FALSE, rows |-> <<>>, totalRows |-> 0, delimiter |-> Undefined]

ModesParseCSVContent(content, opts) ==
    IF Throws(content) THEN ModesParseFailure
    ELSE LET delim == FinalDelimiter(content, opts)
             parsed == ParsedRows(RetainedLines(content, opts), delim,
                                  WithPreview(opts, FALSE))
         IN  [success |-> TRUE, rows |-> parsed, totalRows |-> Len(parsed),
              delimiter |-> delim]

\* The requests of the endpoint.  uploadOptions.sheetName is the title of a
\* spreadsheet to create.
Modes ==
    {Undefined, "append-sheet", "replace-sheet", "replace-spreadsheet", "new-spreadsheet",
     "replace"}
ModesUploadOptions ==
    [mode : Modes, sheetName : {Undefined}]
        \cup [mode : {"new-spreadsheet"}, sheetName : {"Report"}]

ModesRequest(uopts, tab) ==
    [method |-> "POST", apiKey |-> "valid", spreadsheetId |-> "sheet",
     googleToken |-> "token", sheetName |-> tab,
     processingOptions |-> NoOptions, uploadOptions |-> uopts]

DefaultModesRequest ==
    ModesRequest([mode |-> Undefined, sheetName |-> Undefined], Undefined)

ModesRequests ==
    {ModesRequest(uo, tab) : uo \in ModesUploadOptions, tab \in {Undefined, "Data"}}

ModesRejectedRequests ==
    {[DefaultModesRequest EXCEPT !.method = "OPTIONS"],
     [DefaultModesRequest EXCEPT !.method = "GET"],
     [DefaultModesRequest EXCEPT !.apiKey = "missing"],
     [DefaultModesRequest EXCEPT !.apiKey = "invalid"],
     [DefaultModesRequest EXCEPT !.spreadsheetId = Undefined],
     [DefaultModesRequest EXCEPT !.googleToken = Undefined]}

ModesInit ==
    /\ \/ req \in ModesRequests /\ csvContent \in HandlerContents \cup {Missing}
       \/ req \in ModesRejectedRequests /\ csvContent = <<"a">>
    /\ sanitizedContent = <<>>
    /\ spc = "idle"
    /\ csvResult = ParseFailure
    /\ pc = "modes-received"
    /\ uploadResult = NoUploadResult
    /\ calls = <<>>
    /\ resStatus = 0
    /\ resBody = NoBody
    /\ sheetRows \in SheetContents
    /\ usageRow = NotRead

\* Lines 110-147: the checks before the usage lookup.
ModesEntryError(r) ==
    IF r.method = "OPTIONS" THEN [status |-> 200, error |-> "none"]
    ELSE IF r.method # "POST" THEN [status |-> 405, error |-> "Method not allowed - use POST"]
    ELSE IF r.apiKey = "missing" THEN [status |-> 401, error |-> "Authorization header required"]
    ELSE IF r.apiKey # "valid" THEN [status |-> 401, error |-> "Invalid API key"]
    ELSE [status |-> 0, error |-> "none"]

ModesReject ==
    /\ pc = "modes-received"
    /\ ModesEntryError(req).status # 0
    /\ Respond(ModesEntryError(req).status, FALSE, ModesEntryError(req).error, FALSE, FALSE)
    /\ UNCHANGED <<req, sheetRows, csvContent, sanitizedContent, csvResult, uploadResult, calls>>
    /\ UNCHANGED HandlerRest

\* Lines 151-184: the usage row is looked up and an expired trial refused.
ModesUsageRejected ==
    /\ pc = "modes-received"
    /\ ModesEntryError(req).status = 0
    /\ \E usage \in UsageRows :
          /\ UsageError(usage).status # 0
          /\ usageRow' = usage
          /\ Respond(UsageError(usage).status, FALSE, UsageError(usage).error,
                     FALSE, usage = "trial-expired")
    /\ UNCHANGED <<req, sheetRows, csvContent, sanitizedContent, csvResult, uploadResult, calls>>
    /\ UNCHANGED HandlerLocals

ModesUsageAccepted ==
    /\ pc = "modes-received"
    /\ ModesEntryError(req).status = 0
    /\ \E usage \in UsageRows : UsageError(usage).status = 0 /\ usageRow' = usage
    /\ pc' = "modes-checkFields"
    /\ UNCHANGED <<req, sheetRows, csvContent, sanitizedContent, csvResult, uploadResult, calls,
                   resStatus, resBody>>
    /\ UNCHANGED HandlerLocals

\* Lines 198-203.
ModesFieldsMissing ==
    /\ pc = "modes-checkFields"
    /\ FieldsMissing
    /\ Respond(400, FALSE, "CSV content, spreadsheet ID, and Google token are required",
               FALSE, FALSE)
    /\ UNCHANGED <<req, sheetRows, csvContent, sanitizedContent, csvResult, uploadResult, calls>>
    /\ UNCHANGED HandlerRest

\* Lines 213-214: the content is parsed as it was sent.
ModesParse ==
    /\ pc = "modes-checkFields"
    /\ ~FieldsMissing
    /\ csvResult' = ModesParseCSVContent(csvContent, req.processingOptions)
    /\ pc' = "modes-parsed"
    /\ UNCHANGED <<req, sheetRows, csvContent, sanitizedContent, uploadResult, calls,
                   resStatus, resBody>>
    /\ UNCHANGED HandlerRest

\* Lines 216-221.
ModesParseFailed ==
    /\ pc = "modes-parsed"
    /\ ~csvResult.success
    /\ Respond(400, FALSE, "CSV parsing failed", FALSE, FALSE)
    /\ UNCHANGED <<req, sheetRows, csvContent, sanitizedContent, csvResult, uploadResult, calls>>
    /\ UNCHANGED HandlerRest

\* Lines 223-230.
ModesNoData ==
    /\ pc = "modes-parsed"
    /\ csvResult.success
    /\ Len(csvResult.rows) = 0
    /\ Respond(400, FALSE, "No data found in CSV file", FALSE, FALSE)
    /\ UNCHANGED <<req, sheetRows, csvContent, sanitizedContent, csvResult, uploadResult, calls>>
    /\ UNCHANGED HandlerRest

\* sheetName || 'Sheet1', and the tab replaceSpreadsheetContent and
\* createNewSpreadsheetAndUpload write to.
TargetTab(r) ==
    IF OrDefault(r.uploadOptions.mode, "append") \in {"replace-spreadsheet", "new-spreadsheet"}
    THEN "Sheet1"
    ELSE OrDefault(r.sheetName, "Sheet1")

\* uploadOptions?.sheetName || `CSV Import - ${new Date().toLocaleDateString()}`
DatedTitle == "CSV Import - <date>"
spreadsheetName(r) == OrDefault(r.uploadOptions.sheetName, DatedTitle)

\* The id of a spreadsheet the remote service creates.
NewSpreadsheetId == "created"

\* A remote call with the spreadsheet and the tab (for a create: the title) it
\* is about.
CallTo(api, status, id, name) ==
    [api |-> api, status |-> status, spreadsheetId |-> id, name |-> name]

\* Lines 334-348: the function a mode is handed to, as the first statement
\* it runs.
ModeEntryAlwaysReplaces(mode) == "modes-clear"

ModeEntry(mode) ==
    CASE OrDefault(mode, "append") = "replace-sheet" -> "modes-clear"
      [] OrDefault(mode, "append") = "append-sheet" -> "modes-append"
      [] OrDefault(mode, "append") = "replace-spreadsheet" -> "modes-clear"
      [] OrDefault(mode, "append") = "new-spreadsheet" -> "modes-create"
      [] OTHER -> "modes-append"

\* Lines 235-241: uploadToGoogleSheets is called.
ModesStart ==
    /\ pc = "modes-parsed"
    /\ csvResult.success
    /\ Len(csvResult.rows) > 0
    /\ pc' = ModeEntry(req.uploadOptions.mode)
    /\ UNCHANGED <<req, sheetRows, csvContent, sanitizedContent, csvResult, uploadResult, calls,
                   resStatus, resBody>>
    /\ UNCHANGED HandlerRest

\* uploadToGoogleSheets returns r: the handler goes on at line 243.
ModesReturn(r) ==
    /\ uploadResult' = r
    /\ pc' = "modes-returned"

\* Lines 350-356: the value returned for an Error thrown with the status of a
\* refused call, and for a fetch that was rejected.
Refused(what, status) ==
    [success |-> FALSE, error |-> what, upload |-> NoUpload,
     authExpired |-> status \in {401, 403}]

ModesSuccess(newId) ==
    [success |-> TRUE, error |-> "none", authExpired |-> FALSE,
     upload |-> Upload(Len(csvResult.rows), newId)]

\* The spreadsheet the writes of the request go to.
TargetSpreadsheet(r) ==
    IF OrDefault(r.uploadOptions.mode, "append") = "new-spreadsheet"
    THEN NewSpreadsheetId ELSE r.spreadsheetId

\* Lines 460-469: what follows the answer to the create call.  The new
\* spreadsheet has an empty default tab.
AfterCreateIgnoresStatus(status) ==
    IF status = Thrown THEN ModesReturn(Refused("fetch failed", status)) /\ UNCHANGED sheetRows
    ELSE pc' = "modes-clear" /\ sheetRows' = <<>> /\ UNCHANGED uploadResult

AfterCreate(status) ==
    IF status = Thrown THEN ModesReturn(Refused("fetch failed", status)) /\ UNCHANGED sheetRows
    ELSE IF ~IsOk(status)
    THEN ModesReturn(Refused("Failed to create spreadsheet", status)) /\ UNCHANGED sheetRows
    ELSE pc' = "modes-clear" /\ sheetRows' = <<>> /\ UNCHANGED uploadResult

\* createNewSpreadsheetAndUpload, lines 442-466.
createNewSpreadsheet ==
    /\ pc = "modes-create"
    /\ \E status \in FetchOutcomes :
          /\ calls' = Append(calls, CallTo("create", status, Undefined, spreadsheetName(req)))
          /\ AfterCreate(status)
    /\ UNCHANGED <<req, csvContent, sanitizedContent, csvResult, resStatus, resBody>>
    /\ UNCHANGED HandlerRest

\* Lines 376-378: what follows the answer to the clear call.
AfterClearAbortsOnFailure(status) ==
    IF status = Thrown THEN ModesReturn(Refused("fetch failed", status))
    ELSE IF ~IsOk(status) THEN ModesReturn(Refused("Clear failed", status))
    ELSE pc' = "modes-put" /\ UNCHANGED uploadResult

AfterClear(status) ==
    IF status = Thrown THEN ModesReturn(Refused("fetch failed", status))
    ELSE pc' = "modes-put" /\ UNCHANGED uploadResult

\* replaceSheetContent, lines 361-378: the tab is cleared.
replaceSheetClear ==
    /\ pc = "modes-clear"
    /\ \E status \in FetchOutcomes :
          /\ calls' = Append(calls, CallTo("clear", status, TargetSpreadsheet(req),
                                           TargetTab(req)))
          /\ sheetRows' = IF IsOk(status) THEN Cleared(sheetRows) ELSE sheetRows
          /\ AfterClear(status)
    /\ UNCHANGED <<req, csvContent, sanitizedContent, csvResult, resStatus, resBody>>
    /\ UNCHANGED HandlerRest

\* replaceSheetContent, lines 380-402, and the return of
\* createNewSpreadsheetAndUpload, lines 471-475: the rows are put at A1.
replaceSheetPut ==
    /\ pc = "modes-put"
    /\ \E status \in FetchOutcomes :
          /\ calls' = Append(calls, CallTo("put", status, TargetSpreadsheet(req),
                                           TargetTab(req)))
          /\ sheetRows' = IF IsOk(status) THEN Updated(sheetRows, csvResult.rows)
                                           ELSE sheetRows
          /\ IF status = Thrown THEN ModesReturn(Refused("fetch failed", status))
             ELSE IF ~IsOk(status) THEN ModesReturn(Refused("Upload failed", status))
             ELSE ModesReturn(ModesSuccess(IF TargetSpreadsheet(req) = NewSpreadsheetId
                                      THEN NewSpreadsheetId ELSE Undefined))
    /\ UNCHANGED <<req, csvContent, sanitizedContent, csvResult, resStatus, resBody>>
    /\ UNCHANGED HandlerRest

\* appendToSheet, lines 406-431.
appendToSheet ==
    /\ pc = "modes-append"
    /\ \E status \in FetchOutcomes :
          /\ calls' = Append(calls, CallTo("append", status, req.spreadsheetId,
                                           TargetTab(req)))
          /\ sheetRows' = IF IsOk(status) THEN Appended(sheetRows, csvResult.rows)
                                           ELSE sheetRows
          /\ IF status = Thrown THEN ModesReturn(Refused("fetch failed", status))
             ELSE IF ~IsOk(status) THEN ModesReturn(Refused("Append failed", status))
             ELSE ModesReturn(ModesSuccess(Undefined))
    /\ UNCHANGED <<req, csvContent, sanitizedContent, csvResult, resStatus, resBody>>
    /\ UNCHANGED HandlerRest

\* handler, lines 243-253 and 320-325: an expired authentication is answered
\* with 401, any other failure is thrown to the catch block.
ModesFailed ==
    /\ pc = "modes-returned"
    /\ ~uploadResult.success
    /\ IF uploadResult.authExpired
       THEN Respond(401, FALSE, "Google authentication expired", TRUE, FALSE)
       ELSE Respond(500, FALSE, "Upload failed", FALSE, FALSE)
    /\ UNCHANGED <<req, sheetRows, csvContent, sanitizedContent, csvResult, uploadResult, calls>>
    /\ UNCHANGED HandlerRest

\* handler, lines 255-318: the usage counter, the log row, the usage row read
\* again and the success response, with the URL of the request's spreadsheet.
ModesSucceeded ==
    /\ pc = "modes-returned"
    /\ uploadResult.success
    /\ \E usageStatus \in StoreOutcomes, logStatus \in StoreOutcomes :
          calls' = calls \o <<Call("increment_usage", usageStatus),
                              Call("insertLog", logStatus)>>
    /\ resStatus' = 200
    /\ resBody' = Body(TRUE, "none", FALSE, FALSE,
                       Upload(Len(csvResult.rows), req.spreadsheetId))
    /\ pc' = "done"
    /\ UNCHANGED <<req, sheetRows, csvContent, sanitizedContent, csvResult, uploadResult>>
    /\ UNCHANGED HandlerRest

ModesNext ==
    \/ ModesReject \/ ModesUsageRejected \/ ModesUsageAccepted
    \/ ModesFieldsMissing \/ ModesParse \/ ModesParseFailed \/ ModesNoData
    \/ ModesStart
    \/ createNewSpreadsheet \/ replaceSheetClear \/ replaceSheetPut \/ appendToSheet
    \/ ModesFailed \/ ModesSucceeded

(***************************************************************************)
(* Two replace uploads to one tab at the same time: the clear and the put  *)
(* of uploadToGoogleSheets (csv-api.js:562-594) of two requests, which the *)
(* remote service answers in any order.                                    *)
(***************************************************************************)
RaceRequests == {1, 2}
RaceTables ==
    {<< << <<"a">> >> >>,
     << << <<"b">>, <<"b">> >>, << <<"c">> >> >>,
     << << <<"d">> >>, << <<"e">> >>, << <<"f">> >> >>}
RaceOutcomes == {200, 500, Thrown}

RaceCall(r, api, status) == [request |-> r, api |-> api, status |-> status]

RaceIdle ==
    /\ racePc = [r \in RaceRequests |-> "idle"]
    /\ raceData = [r \in RaceRequests |-> <<>>]
    /\ raceCalls = <<>>
    /\ raceRes = [r \in RaceRequests |-> 0]

RaceInit ==
    /\ racePc = [r \in RaceRequests |-> "clear"]
    /\ raceData \in [RaceRequests -> RaceTables]
    /\ raceCalls = <<>>
    /\ raceRes = [r \in RaceRequests |-> 0]
    /\ sheetRows \in SheetContents
    /\ req = DefaultRequest /\ pc = "idle" /\ uploadResult = NoUploadResult
    /\ calls = <<>> /\ resStatus = 0 /\ resBody = NoBody /\ usageRow = NotRead

RaceRest ==
    <<tokVars, detVars, sanVars, parseVars, tabVars, bulkVars, clockVars, bgVars, req, pc, uploadResult,
      calls, resStatus, resBody, usageRow>>

\* Lines 568-578: request r clears the tab; the answer is not looked at.
RaceClear(r) ==
    /\ racePc[r] = "clear"
    /\ \E status \in RaceOutcomes :
          /\ raceCalls' = Append(raceCalls, RaceCall(r, "clear", status))
          /\ sheetRows' = IF IsOk(status) THEN ClearedAToZ(sheetRows) ELSE sheetRows
          /\ racePc' = [racePc EXCEPT ![r] = IF status = Thrown THEN "done" ELSE "put"]
    /\ UNCHANGED <<raceData, raceRes>>
    /\ UNCHANGED RaceRest

\* Lines 580-594: request r puts its rows at A1.
RacePut(r) ==
    /\ racePc[r] = "put"
    /\ \E status \in RaceOutcomes :
          /\ raceCalls' = Append(raceCalls, RaceCall(r, "put", status))
          /\ sheetRows' = IF IsOk(status) THEN Updated(sheetRows, raceData[r]) ELSE sheetRows
          /\ racePc' = [racePc EXCEPT ![r] = "done"]
    /\ UNCHANGED <<raceData, raceRes>>
    /\ UNCHANGED RaceRest

RaceNext == \E r \in RaceRequests : RaceClear(r) \/ RacePut(r)

(***************************************************************************)
(* Creating a tab: handleCreateTab of sheets-api.js and the handler of the *)
(* create-tab endpoint.  Both run the same steps; the endpoint also reads  *)
(* the message of a refused addSheet.                                      *)
(***************************************************************************)
\* String.prototype.toLowerCase on the letters of the names.
toLowerCase(s) ==
    [k \in 1..Len(s) |-> IF s[k] = "A" THEN "a" ELSE IF s[k] = "B" THEN "b" ELSE s[k]]

NameAlphabet == {"a", "A", "b", " "}
TabNames == StringsUpTo(NameAlphabet, MaxNameLen) \cup {NotAString}
Titles == {<<"a">>, <<"A", "b">>, <<"B">>}
TabVariants == {"sheets-api", "create-tab"}

TabRequest(variant, name) ==
    [variant |-> variant, spreadsheetId |-> "sheet", tabName |-> name,
     googleToken |-> "token"]

DefaultTabRequest == TabRequest("sheets-api", <<"a">>)

TabRequests ==
    {TabRequest(v, n) : v \in TabVariants, n \in TabNames}
        \cup {[TabRequest(v, <<"a">>) EXCEPT !.spreadsheetId = Undefined] : v \in TabVariants}
        \cup {[TabRequest(v, <<"a">>) EXCEPT !.googleToken = Undefined] : v \in TabVariants}

NoTabResponse == [status |-> 0, needsReauth |-> FALSE]

TabIdle ==
    /\ tabReq = DefaultTabRequest /\ tabPc = "idle" /\ sheetTitles = {}
    /\ existingTabs = {} /\ tabCalls = <<>> /\ tabRes = NoTabResponse

TabInit ==
    /\ tabReq \in TabRequests
    /\ tabPc = "received"
    /\ sheetTitles \in SUBSET Titles
    /\ existingTabs = {}
    /\ tabCalls = <<>>
    /\ tabRes = NoTabResponse

TabRespond(status, needsReauth) ==
    /\ tabRes' = [status |-> status, needsReauth |-> needsReauth]
    /\ tabPc' = "done"

TabRest == <<tokVars, detVars, sanVars, parseVars, reqVars, raceVars, bulkVars, clockVars, bgVars>>

\* const finalTabName = tabName.trim();
finalTabName(r) == trim(r.tabName)

\* sheets-api.js lines 56-61 and 427-443, create-tab endpoint lines 53-69: the
\* status of a request that is answered before any remote call.  A name that
\* is no string has no trim: the TypeError ends in the catch block.
TabEntryError(r) ==
    IF r.spreadsheetId = Undefined \/ r.tabName = <<>> \/ r.googleToken = Undefined THEN 400
    ELSE IF r.tabName = NotAString THEN 500
    ELSE IF finalTabName(r) = <<>> THEN 400
    ELSE 0

TabReject ==
    /\ tabPc = "received"
    /\ TabEntryError(tabReq) # 0
    /\ TabRespond(TabEntryError(tabReq), FALSE)
    /\ UNCHANGED <<tabReq, sheetTitles, existingTabs, tabCalls>>
    /\ UNCHANGED TabRest

TabAccept ==
    /\ tabPc = "received"
    /\ TabEntryError(tabReq) = 0
    /\ tabPc' = "lookup"
    /\ UNCHANGED <<tabReq, sheetTitles, existingTabs, tabCalls, tabRes>>
    /\ UNCHANGED TabRest

\* existingTabs.some(sheet => sheet.properties.title.toLowerCase() ===
\* finalTabName.toLowerCase())
tabExistsCaseSensitive(tabs, name) == \E title \in tabs : title = name

tabExists(tabs, name) == \E title \in tabs : toLowerCase(title) = toLowerCase(name)

\* sheets-api.js lines 447-473, create-tab endpoint lines 73-99: the titles are
\* looked up; a name that is among them is refused, and an unanswered lookup
\* is passed over.
TabLookup ==
    /\ tabPc = "lookup"
    /\ \E status \in FetchOutcomes :
          /\ tabCalls' = Append(tabCalls, Call("getTabs", status))
          /\ IF status = Thrown
             THEN TabRespond(500, FALSE) /\ UNCHANGED existingTabs
             ELSE IF ~IsOk(status)
             THEN tabPc' = "addSheet" /\ UNCHANGED <<existingTabs, tabRes>>
             ELSE /\ existingTabs' = sheetTitles
                  /\ IF tabExists(sheetTitles, finalTabName(tabReq))
                     THEN TabRespond(409, FALSE)
                     ELSE tabPc' = "addSheet" /\ UNCHANGED tabRes
    /\ UNCHANGED <<tabReq, sheetTitles>>
    /\ UNCHANGED TabRest

\* sheets-api.js lines 500-520, create-tab endpoint lines 126-159: the status
\* answered to a refused addSheet.
AddSheetError(variant, status, saysAlreadyExists) ==
    IF status \in {401, 403} THEN 401
    ELSE IF status = 404 THEN 404
    ELSE IF variant = "create-tab" /\ saysAlreadyExists THEN 409
    ELSE 500

\* sheets-api.js lines 489-492, create-tab endpoint lines 115-118: the grid
\* asked for in the addSheet request, gridProperties: { rowCount: 1000,
\* columnCount: 26 }.
rowCount == 1000

columnCount == 26

gridProperties == [rowCount |-> rowCount, columnCount |-> columnCount]

\* The addSheet request as it is sent, with the answer of the remote service.
AddSheetCall(status) ==
    [api |-> "addSheet", status |-> status, gridProperties |-> gridProperties]

\* sheets-api.js lines 475-520, create-tab endpoint lines 101-159: the tab is
\* created with 1000 rows and 26 columns.
TabAddSheet ==
    /\ tabPc = "addSheet"
    /\ \E status \in FetchOutcomes \cup {400}, saysAlreadyExists \in BOOLEAN :
          /\ tabCalls' = Append(tabCalls, AddSheetCall(status))
          /\ IF status = Thrown
             THEN TabRespond(500, FALSE) /\ UNCHANGED sheetTitles
             ELSE IF ~IsOk(status)
             THEN /\ TabRespond(AddSheetError(tabReq.variant, status, saysAlreadyExists),
                                status \in {401, 403})
                  /\ UNCHANGED sheetTitles
             ELSE /\ sheetTitles' = sheetTitles \cup {finalTabName(tabReq)}
                  /\ tabPc' = "created"
                  /\ UNCHANGED tabRes
    /\ UNCHANGED <<tabReq, existingTabs>>
    /\ UNCHANGED TabRest

\* sheets-api.js lines 522-549, create-tab endpoint lines 161-208: the activity
\* is logged, whatever becomes of the log row, and the tab is reported.
TabCreated ==
    /\ tabPc = "created"
    /\ TabRespond(200, FALSE)
    /\ UNCHANGED <<tabReq, sheetTitles, existingTabs, tabCalls>>
    /\ UNCHANGED TabRest

TabNext == TabReject \/ TabAccept \/ TabLookup \/ TabAddSheet \/ TabCreated

(***************************************************************************)
(* Two create-tab requests for one spreadsheet at the same time.  Each     *)
(* runs the steps of its handler from the lookup on; the remote service    *)
(* answers the calls one at a time and refuses an addSheet whose title a   *)
(* tab of the spreadsheet already has, whatever the case of its letters.   *)
(***************************************************************************)
TabRaceNames == {<<"a">>, <<"A">>, <<"b">>}
TabRaceRequestsOf == {TabRequest(v, n) : v \in TabVariants, n \in TabRaceNames}

TabRaceCall(r, api, status, alreadyExists) ==
    [request |-> r, api |-> api, status |-> status, alreadyExists |-> alreadyExists]

TabRaceInit ==
    /\ racePc = [r \in RaceRequests |-> "lookup"]
    /\ raceData \in [RaceRequests -> TabRaceRequestsOf]
    /\ raceCalls = <<>>
    /\ raceRes = [r \in RaceRequests |-> 0]
    /\ sheetTitles \in SUBSET Titles
    /\ tabReq = DefaultTabRequest /\ tabPc = "idle" /\ existingTabs = {}
    /\ tabCalls = <<>> /\ tabRes = NoTabResponse

TabRaceRest ==
    <<tokVars, detVars, sanVars, parseVars, reqVars, bulkVars, clockVars, bgVars, tabReq, tabPc,
      existingTabs, tabCalls, tabRes>>

TabRaceRespond(r, status) ==
    /\ raceRes' = [raceRes EXCEPT ![r] = status]
    /\ racePc' = [racePc EXCEPT ![r] = "done"]

\* sheets-api.js lines 447-473, create-tab endpoint lines 73-99, for request r.
TabRaceLookup(r) ==
    /\ racePc[r] = "lookup"
    /\ \E status \in FetchOutcomes :
          /\ raceCalls' = Append(raceCalls, TabRaceCall(r, "getTabs", status, FALSE))
          /\ IF status = Thrown THEN TabRaceRespond(r, 500)
             ELSE IF IsOk(status) /\ tabExists(sheetTitles, finalTabName(raceData[r]))
             THEN TabRaceRespond(r, 409)
             ELSE racePc' = [racePc EXCEPT ![r] = "addSheet"] /\ UNCHANGED raceRes
    /\ UNCHANGED <<raceData, sheetTitles>>
    /\ UNCHANGED TabRaceRest

\* What the remote service can answer to the addSheet of a title: a title
\* that is taken is never created, and its refusal is a 400 whose message says
\* that the sheet already exists.
AddSheetAnswers(titles, name) ==
    IF tabExists(titles, name)
    THEN {[status |-> 400, alreadyExists |-> TRUE]}
            \cup {[status |-> st, alreadyExists |-> FALSE] : st \in FetchOutcomes \ {200}}
    ELSE {[status |-> st, alreadyExists |-> FALSE] : st \in FetchOutcomes \cup {400}}

\* sheets-api.js lines 475-520, create-tab endpoint lines 101-159, for
\* request r.
TabRaceAddSheet(r) ==
    /\ racePc[r] = "addSheet"
    /\ \E answer \in AddSheetAnswers(sheetTitles, finalTabName(raceData[r])) :
          /\ raceCalls' = Append(raceCalls, TabRaceCall(r, "addSheet", answer.status,
                                                       answer.alreadyExists))
          /\ IF answer.status = Thrown
             THEN TabRaceRespond(r, 500) /\ UNCHANGED sheetTitles
             ELSE IF ~IsOk(answer.status)
             THEN /\ TabRaceRespond(r, AddSheetError(raceData[r].variant, answer.status,
                                                     answer.alreadyExists))
                  /\ UNCHANGED sheetTitles
             ELSE /\ sheetTitles' = sheetTitles \cup {finalTabName(raceData[r])}
                  /\ racePc' = [racePc EXCEPT ![r] = "created"]
                  /\ UNCHANGED raceRes
    /\ UNCHANGED raceData
    /\ UNCHANGED TabRaceRest

\* sheets-api.js lines 522-549, create-tab endpoint lines 161-208, for
\* request r.
TabRaceCreated(r) ==
    /\ racePc[r] = "created"
    /\ TabRaceRespond(r, 200)
    /\ UNCHANGED <<raceData, raceCalls, sheetTitles>>
    /\ UNCHANGED TabRaceRest

TabRaceNext ==
    \E r \in RaceRequests : TabRaceLookup(r) \/ TabRaceAddSheet(r) \/ TabRaceCreated(r)

(***************************************************************************)
(* The first upload endpoint (api/upload-csv.js): handler,                 *)
(* parseCSVWithMagic, createSheetTab, appendSheetData, replaceSheetData    *)
(* and applySmartFormatting.  Its remote calls go through the googleapis   *)
(* client, which rejects the promise of a call that is not answered 2xx.   *)
(***************************************************************************)
\* isNaN(cell) is false, for a cell of letters and digits, when every
\* character is a digit (the empty cell converts to 0); isDate is always
\* false.
Digits == {"0", "1", "2", "3", "4", "5", "6", "7", "8", "9"}
NotNaN(cell) == \A k \in 1..Len(cell) : cell[k] \in Digits

\* isNumber: !isNaN(value) && !isNaN(parseFloat(value))
isNumber(cell) == Len(cell) > 0 /\ NotNaN(cell)

\* looksLikeHeader: more than 70% of the cells are no numbers.
looksLikeHeader(row) ==
    Cardinality({k \in 1..Len(row) : ~NotNaN(row[k])}) * 10 > Len(row) * 7

\* cleanHeaderName: trimmed, the characters that are neither word characters
\* nor white space removed, each white space replaced by '_'.
IsWordChar(c) == c \in Digits \cup {"a", "b", "c", "d", "A", "B", "C", "l", "m", "n", "o", "u", "_"}
KeepsInHeader(c) == IsWordChar(c) \/ IsWhite(c)
cleanHeaderName(h) ==
    LET kept == SelectSeq(trim(h), KeepsInHeader)
    IN  [k \in 1..Len(kept) |-> IF IsWhite(kept[k]) THEN "_" ELSE kept[k]]

\* The header generated for column k: `Column ${k}`.
GeneratedHeader(k) == <<"C", "o", "l", "u", "m", "n", " ", ToString(k)>>

\* formatNumber: parseFloat(value), a number and no longer a string.
Number(cell) == <<"number">> \o cell

\* processCellValue
processCellValue(cell) ==
    IF cell = <<>> THEN <<>>
    ELSE IF toLowerCase(trim(cell)) \in {<<"n", "u", "l", "l">>, <<"n", "/", "a">>} THEN <<>>
    ELSE IF isNumber(trim(cell)) THEN Number(trim(cell))
    ELSE trim(cell)

\* The records csv-parse returns for a text of lines without quotes: the
\* lines that are not empty, split at the commas, every cell trimmed.
Records(content) == ParsedRows(RetainedLines(content, NoOptions), ",", NoOptions)

\* parseCSVWithMagic, lines 159-214.  A text without records, or one that is
\* no string, makes it throw.
MagicThrows(content) == Throws(content) \/ Records(content) = <<>>

parseCSVWithMagic(content) ==
    LET records == Records(content)
        first == records[1]
        headerLike == looksLikeHeader(first)
        rawHeaders == IF headerLike THEN first
                      ELSE [k \in 1..Len(first) |-> GeneratedHeader(k)]
        dataRows == IF headerLike THEN Tail(records) ELSE records
        headers == [k \in 1..Len(rawHeaders) |-> cleanHeaderName(rawHeaders[k])]
        processedRows ==
            [r \in 1..Len(dataRows) |->
                [k \in 1..Len(dataRows[r]) |-> processCellValue(dataRows[r][k])]]
    IN  [success |-> TRUE, headers |-> headers, rows |-> processedRows,
         sheetData |-> <<headers>> \o processedRows]

\* The requests of the endpoint.
UploadCsvLineChoices == {<<>>, <<"a">>, <<"a", ",", "b">>, <<"1">>}
UploadCsvContents ==
    {Join(ls) : ls \in StringsUpTo(UploadCsvLineChoices, MaxUploadRows) \ {<<>>}}
        \cup {NotAString}

UploadCsvRequest(mode, newTab) ==
    [method |-> "POST", apiKey |-> "valid", spreadsheetId |-> "sheet",
     googleToken |-> "token", sheetName |-> "Data", uploadMode |-> mode,
     createNewTab |-> newTab]

DefaultUploadCsvRequest == UploadCsvRequest(Undefined, FALSE)

UploadCsvRequests ==
    {UploadCsvRequest(mode, newTab) :
        mode \in {Undefined, "append", "replace"}, newTab \in BOOLEAN}

UploadCsvRejectedRequests ==
    {[DefaultUploadCsvRequest EXCEPT !.method = "GET"],
     [DefaultUploadCsvRequest EXCEPT !.apiKey = "missing"],
     [DefaultUploadCsvRequest EXCEPT !.apiKey = "invalid"],
     [DefaultUploadCsvRequest EXCEPT !.spreadsheetId = Undefined],
     [DefaultUploadCsvRequest EXCEPT !.sheetName = Undefined]}

UploadCsvInit ==
    /\ \/ req \in UploadCsvRequests /\ csvContent \in UploadCsvContents
       \/ req \in UploadCsvRejectedRequests /\ csvContent = <<"a">>
    /\ sanitizedContent = <<>>
    /\ spc = "idle"
    /\ csvResult = ParseFailure
    /\ pc = "uc-received"
    /\ uploadResult = NoUploadResult
    /\ calls = <<>>
    /\ resStatus = 0
    /\ resBody = NoBody
    /\ sheetRows \in SheetContents
    /\ usageRow = NotRead

\* Lines 14-36: the checks before the usage lookup.
UploadCsvEntryError(r) ==
    IF r.method # "POST" THEN [status |-> 405, error |-> "Method not allowed"]
    ELSE IF r.apiKey = "missing" THEN [status |-> 401, error |-> "No API key provided"]
    ELSE IF r.apiKey # "valid" THEN [status |-> 401, error |-> "Invalid API key"]
    ELSE [status |-> 0, error |-> "none"]

UploadCsvReject ==
    /\ pc = "uc-received"
    /\ UploadCsvEntryError(req).status # 0
    /\ Respond(UploadCsvEntryError(req).status, FALSE, UploadCsvEntryError(req).error,
               FALSE, FALSE)
    /\ UNCHANGED <<req, sheetRows, csvContent, sanitizedContent, csvResult, uploadResult, calls>>
    /\ UNCHANGED HandlerRest

\* Lines 42-83.
UploadCsvUsageRejected ==
    /\ pc = "uc-received"
    /\ UploadCsvEntryError(req).status = 0
    /\ \E usage \in UsageRows :
          /\ UsageError(usage).status # 0
          /\ usageRow' = usage
          /\ Respond(UsageError(usage).status, FALSE, UsageError(usage).error,
                     FALSE, usage = "trial-expired")
    /\ UNCHANGED <<req, sheetRows, csvContent, sanitizedContent, csvResult, uploadResult, calls>>
    /\ UNCHANGED HandlerLocals

UploadCsvUsageAccepted ==
    /\ pc = "uc-received"
    /\ UploadCsvEntryError(req).status = 0
    /\ \E usage \in UsageRows : UsageError(usage).status = 0 /\ usageRow' = usage
    /\ pc' = "uc-checkFields"
    /\ UNCHANGED <<req, sheetRows, csvContent, sanitizedContent, csvResult, uploadResult, calls,
                   resStatus, resBody>>
    /\ UNCHANGED HandlerLocals

\* Lines 98-103.
UploadCsvFieldsMissing ==
    /\ pc = "uc-checkFields"
    /\ csvContent = Missing \/ req.spreadsheetId = Undefined \/ req.sheetName = Undefined
    /\ Respond(400, FALSE, "Missing required fields", FALSE, FALSE)
    /\ UNCHANGED <<req, sheetRows, csvContent, sanitizedContent, csvResult, uploadResult, calls>>
    /\ UNCHANGED HandlerRest

\* Lines 114 and 147-153: parseCSVWithMagic throws and the catch block answers.
UploadCsvParseThrows ==
    /\ pc = "uc-checkFields"
    /\ ~(csvContent = Missing \/ req.spreadsheetId = Undefined \/ req.sheetName = Undefined)
    /\ MagicThrows(csvContent)
    /\ Respond(500, FALSE, "Failed to parse CSV", FALSE, FALSE)
    /\ UNCHANGED <<req, sheetRows, csvContent, sanitizedContent, csvResult, uploadResult, calls>>
    /\ UNCHANGED HandlerRest

\* Lines 114-127: the content is parsed and the first remote call chosen.
UploadCsvParse ==
    /\ pc = "uc-checkFields"
    /\ ~(csvContent = Missing \/ req.spreadsheetId = Undefined \/ req.sheetName = Undefined)
    /\ ~MagicThrows(csvContent)
    /\ csvResult' = parseCSVWithMagic(csvContent)
    /\ pc' = IF req.createNewTab THEN "uc-createTab"
             ELSE IF req.uploadMode = "replace" THEN "uc-clear" ELSE "uc-append"
    /\ UNCHANGED <<req, sheetRows, csvContent, sanitizedContent, uploadResult, calls,
                   resStatus, resBody>>
    /\ UNCHANGED HandlerRest

\* The catch blocks of the helpers rethrow with their own message and the
\* catch block of the handler, lines 147-153, answers 500 with it.
UploadCsvThrow(message) == Respond(500, FALSE, message, FALSE, FALSE)

\* The mode the handler chooses at lines 123-127.
UploadCsvWritePc(r) == IF r.uploadMode = "replace" THEN "uc-clear" ELSE "uc-append"

\* createSheetTab, lines 283-302.
UploadCsvCreateTab ==
    /\ pc = "uc-createTab"
    /\ \E status \in FetchOutcomes :
          /\ calls' = Append(calls, Call("addSheet", status))
          /\ IF IsOk(status)
             THEN /\ pc' = UploadCsvWritePc(req)
                  /\ UNCHANGED <<resStatus, resBody>>
             ELSE UploadCsvThrow("Failed to create new tab")
    /\ UNCHANGED <<req, sheetRows, csvContent, sanitizedContent, csvResult, uploadResult>>
    /\ UNCHANGED HandlerRest

\* appendSheetData, lines 304-324.
UploadCsvAppend ==
    /\ pc = "uc-append"
    /\ \E status \in FetchOutcomes :
          /\ calls' = Append(calls, Call("append", status))
          /\ IF IsOk(status)
             THEN /\ sheetRows' = Appended(sheetRows, csvResult.sheetData)
                  /\ pc' = "uc-written"
                  /\ UNCHANGED <<resStatus, resBody>>
             ELSE /\ UploadCsvThrow("Failed to append data")
                  /\ UNCHANGED sheetRows
    /\ UNCHANGED <<req, csvContent, sanitizedContent, csvResult, uploadResult>>
    /\ UNCHANGED HandlerRest

\* replaceSheetData, lines 328-332: the clear call.
UploadCsvClear ==
    /\ pc = "uc-clear"
    /\ \E status \in FetchOutcomes :
          /\ calls' = Append(calls, Call("clear", status))
          /\ IF IsOk(status)
             THEN /\ sheetRows' = ClearedAToZ(sheetRows)
                  /\ pc' = "uc-put"
                  /\ UNCHANGED <<resStatus, resBody>>
             ELSE /\ UploadCsvThrow("Failed to replace data")
                  /\ UNCHANGED sheetRows
    /\ UNCHANGED <<req, csvContent, sanitizedContent, csvResult, uploadResult>>
    /\ UNCHANGED HandlerRest

\* replaceSheetData, lines 334-342: the update call.
UploadCsvPut ==
    /\ pc = "uc-put"
    /\ \E status \in FetchOutcomes :
          /\ calls' = Append(calls, Call("put", status))
          /\ IF IsOk(status)
             THEN /\ sheetRows' = Updated(sheetRows, csvResult.sheetData)
                  /\ pc' = "uc-getSheetId"
                  /\ UNCHANGED <<resStatus, resBody>>
             ELSE /\ UploadCsvThrow("Failed to replace data")
                  /\ UNCHANGED sheetRows
    /\ UNCHANGED <<req, csvContent, sanitizedContent, csvResult, uploadResult>>
    /\ UNCHANGED HandlerRest

\* What replaceSheetData does when a call of applySmartFormatting was
\* answered: the formatting runs inside the try block of the replacement
\* (lines 327-354), so a rejected call is rethrown as a failed replacement.
AfterFormatCall(status, next) ==
    IF IsOk(status)
    THEN /\ pc' = next
         /\ UNCHANGED <<resStatus, resBody>>
    ELSE UploadCsvThrow("Failed to replace data")

\* applySmartFormatting, line 361, and getSheetId, lines 415-421.
UploadCsvGetSheetId ==
    /\ pc = "uc-getSheetId"
    /\ \E status \in FetchOutcomes :
          /\ calls' = Append(calls, Call("getSheetId", status))
          /\ AfterFormatCall(status, "uc-batchUpdate")
    /\ UNCHANGED <<req, sheetRows, csvContent, sanitizedContent, csvResult, uploadResult>>
    /\ UNCHANGED HandlerRest

\* applySmartFormatting, lines 363-411: the header format is always
\* requested, so the batch update is always sent.
UploadCsvBatchUpdate ==
    /\ pc = "uc-batchUpdate"
    /\ \E status \in FetchOutcomes :
          /\ calls' = Append(calls, Call("batchUpdate", status))
          /\ AfterFormatCall(status, "uc-written")
    /\ UNCHANGED <<req, sheetRows, csvContent, sanitizedContent, csvResult, uploadResult>>
    /\ UNCHANGED HandlerRest

\* Lines 129-145: the log row and the success response.  The row count is
\* that of the data rows, the header row not counted.
UploadCsvSucceeded ==
    /\ pc = "uc-written"
    /\ \E logStatus \in StoreOutcomes :
          calls' = Append(calls, Call("insertLog", logStatus))
    /\ resStatus' = 200
    /\ resBody' = Body(TRUE, "none", FALSE, FALSE,
                       Upload(Len(csvResult.rows), Undefined))
    /\ pc' = "done"
    /\ UNCHANGED <<req, sheetRows, csvContent, sanitizedContent, csvResult, uploadResult>>
    /\ UNCHANGED HandlerRest

UploadCsvNext ==
    \/ UploadCsvReject \/ UploadCsvUsageRejected \/ UploadCsvUsageAccepted
    \/ UploadCsvFieldsMissing \/ UploadCsvParseThrows \/ UploadCsvParse
    \/ UploadCsvCreateTab \/ UploadCsvAppend
    \/ UploadCsvClear \/ UploadCsvPut \/ UploadCsvGetSheetId \/ UploadCsvBatchUpdate
    \/ UploadCsvSucceeded

(***************************************************************************)
(* The bulk queue of api/get-sheet-tabs.js: handleBulkQueueAddFile and     *)
(* handleBulkQueueExecute on one job.  Two requests run at the same time;  *)
(* each await of a handler is a step, the three awaits of one turn of the  *)
(* execute loop being one.  The Supabase client answers every call, with   *)
(* an error object when the call failed.                                   *)
(***************************************************************************)
BulkRequests == {1, 2}
BulkActions == {"bulk-queue-add-file", "bulk-queue-execute"}
BulkJobIds == {"job", "other", Undefined}

\* The row handleBulkQueueCreate inserts (lines 1036-1044), and the row of a
\* job that one file was added to.
CreatedJob == [status |-> "created", files_count |-> 0]
BuildingJob == [status |-> "building", files_count |-> 1]

NoJob == [status |-> "none", files_count |-> 0]
NoBulkResponse == [status |-> 0, success |-> FALSE, jobStatus |-> "none"]

\* A request and the locals of its handler: the job row it has read, the
\* pending files it has read (their places in bulk_upload_files) and those
\* of them still to be processed, the two counters, the number of inserts
\* and updates it has sent, and the files that handleCompleteUpload, called
\* by it, has written to Google Sheets.  A request without jobId stands for
\* every request that lacks a required field.
BulkRequest(action, jobId) ==
    [action |-> action, jobId |-> jobId, pc |-> "received", job |-> NoJob,
     selected |-> <<>>, files |-> <<>>, successCount |-> 0, errorCount |-> 0,
     writes |-> 0, uploaded |-> <<>>]

BulkIdle ==
    /\ bulkJob = NoJob /\ bulkFiles = <<>>
    /\ bulkReq = [r \in BulkRequests |-> BulkRequest("none", Undefined)]
    /\ bulkRes = [r \in BulkRequests |-> NoBulkResponse]

BulkInit ==
    /\ bulkJob \in {CreatedJob, BuildingJob}
    /\ bulkFiles = [k \in 1..bulkJob.files_count |-> "pending"]
    /\ bulkReq \in [BulkRequests -> {BulkRequest(a, j) : a \in BulkActions, j \in BulkJobIds}]
    /\ bulkRes = [r \in BulkRequests |-> NoBulkResponse]

BulkRest == <<tokVars, detVars, sanVars, parseVars, reqVars, tabVars, raceVars, clockVars, bgVars>>

\* return res.status(status).json({ success, ..., job: { status: jobStatus } })
BulkAnswer(r, locals, status, success, jobStatus) ==
    /\ bulkReq' = [bulkReq EXCEPT ![r] = [locals EXCEPT !.pc = "done"]]
    /\ bulkRes' = [bulkRes EXCEPT ![r] =
                      [status |-> status, success |-> success, jobStatus |-> jobStatus]]

BulkGoto(r, locals, next) ==
    /\ bulkReq' = [bulkReq EXCEPT ![r] = [locals EXCEPT !.pc = next]]
    /\ UNCHANGED bulkRes

\* Lines 1083-1088 and 1421-1426: a required field is missing.
BulkFieldsMissing(r) ==
    /\ bulkReq[r].action \in BulkActions
    /\ bulkReq[r].pc = "received"
    /\ bulkReq[r].jobId = Undefined
    /\ BulkAnswer(r, bulkReq[r], 400, FALSE, "none")
    /\ UNCHANGED <<bulkJob, bulkFiles>>
    /\ UNCHANGED BulkRest

\* job.status !== 'created' && job.status !== 'building' (lines 1105, 1443)
BulkStatusAcceptedAlways(status) == TRUE

BulkStatusAccepted(status) == status \in {"created", "building"}

\* Lines 1090-1110 and 1428-1448: the job row is selected; a select that
\* failed or found no row of the user is answered 404, a row in another
\* status than 'created' and 'building' 400.
BulkSelectJob(r) ==
    /\ bulkReq[r].action \in BulkActions
    /\ bulkReq[r].pc = "received"
    /\ bulkReq[r].jobId # Undefined
    /\ \E answer \in StoreOutcomes :
          IF ~IsOk(answer) \/ bulkReq[r].jobId # "job"
          THEN BulkAnswer(r, bulkReq[r], 404, FALSE, "none")
          ELSE IF ~BulkStatusAccepted(bulkJob.status)
          THEN BulkAnswer(r, [bulkReq[r] EXCEPT !.job = bulkJob], 400, FALSE, "none")
          ELSE BulkGoto(r, [bulkReq[r] EXCEPT !.job = bulkJob],
                        IF bulkReq[r].action = "bulk-queue-add-file"
                        THEN "insertFile" ELSE "selectFiles")
    /\ UNCHANGED <<bulkJob, bulkFiles>>
    /\ UNCHANGED BulkRest

\* handleBulkQueueAddFile, lines 1112-1137: the file row is inserted with
\* status 'pending'.
BulkInsertFile(r) ==
    /\ bulkReq[r].pc = "insertFile"
    /\ \E answer \in StoreOutcomes :
          LET sent == [bulkReq[r] EXCEPT !.writes = @ + 1]
          IN  IF IsOk(answer)
              THEN /\ bulkFiles' = Append(bulkFiles, "pending")
                   /\ BulkGoto(r, sent, "updateJob")
              ELSE /\ BulkAnswer(r, sent, 500, FALSE, "none")
                   /\ UNCHANGED bulkFiles
    /\ UNCHANGED bulkJob
    /\ UNCHANGED BulkRest

\* handleBulkQueueAddFile, lines 1139-1170: the job row is updated to
\* 'building' with the count read at the select plus one; an update that
\* failed is logged, and the request is answered as a success.
BulkUpdateJob(r) ==
    /\ bulkReq[r].pc = "updateJob"
    /\ \E answer \in StoreOutcomes :
          /\ bulkJob' = IF IsOk(answer)
                        THEN [status |-> "building",
                              files_count |-> bulkReq[r].job.files_count + 1]
                        ELSE bulkJob
          /\ BulkAnswer(r, [bulkReq[r] EXCEPT !.writes = @ + 1], 200, TRUE, "building")
    /\ UNCHANGED bulkFiles
    /\ UNCHANGED BulkRest

\* .eq('status', 'pending'): the places of the pending files, in order.
PendingFiles(fileRows) ==
    SelectSeq([k \in 1..Len(fileRows) |-> k], LAMBDA k : fileRows[k] = "pending")

\* handleBulkQueueExecute, lines 1450-1471: the pending files are selected.
BulkSelectFiles(r) ==
    /\ bulkReq[r].pc = "selectFiles"
    /\ \E answer \in StoreOutcomes :
          IF ~IsOk(answer) THEN BulkAnswer(r, bulkReq[r], 500, FALSE, "none")
          ELSE IF PendingFiles(bulkFiles) = <<>>
          THEN BulkAnswer(r, bulkReq[r], 400, FALSE, "none")
          ELSE BulkGoto(r, [bulkReq[r] EXCEPT !.selected = PendingFiles(bulkFiles),
                                              !.files = PendingFiles(bulkFiles)],
                        "markProcessing")
    /\ UNCHANGED <<bulkJob, bulkFiles>>
    /\ UNCHANGED BulkRest

\* handleBulkQueueExecute, lines 1473-1481: the job row is updated to
\* 'processing'; the answer of the update is not read.
BulkMarkProcessing(r) ==
    /\ bulkReq[r].pc = "markProcessing"
    /\ \E answer \in StoreOutcomes :
          bulkJob' = IF IsOk(answer) THEN [bulkJob EXCEPT !.status = "processing"]
                     ELSE bulkJob
    /\ BulkGoto(r, [bulkReq[r] EXCEPT !.writes = @ + 1], "processFile")
    /\ UNCHANGED bulkFiles
    /\ UNCHANGED BulkRest

\* handleBulkQueueExecute, lines 1485-1564: one turn of the loop.  The file
\* is marked 'processing', handleCompleteUpload runs on it, and the file is
\* marked 'completed' when it answered with a success and 'failed' when it
\* answered otherwise or threw; the answers of the two updates are not read.
BulkProcessFile(r) ==
    /\ bulkReq[r].pc = "processFile"
    /\ bulkReq[r].files # <<>>
    /\ \E outcome \in {"completed", "failed"}, marked \in StoreOutcomes,
          stored \in StoreOutcomes :
          /\ bulkFiles' = [bulkFiles EXCEPT ![Head(bulkReq[r].files)] =
                              IF IsOk(stored) THEN outcome
                              ELSE IF IsOk(marked) THEN "processing" ELSE @]
          /\ BulkGoto(r, [bulkReq[r] EXCEPT
                             !.files = Tail(@),
                             !.uploaded = IF outcome = "completed"
                                          THEN Append(@, Head(bulkReq[r].files))
                                          ELSE @,
                             !.successCount = IF outcome = "completed" THEN @ + 1 ELSE @,
                             !.errorCount = IF outcome = "failed" THEN @ + 1 ELSE @,
                             !.writes = @ + 2],
                      "processFile")
    /\ UNCHANGED bulkJob
    /\ UNCHANGED BulkRest

\* const finalStatus = errorCount === 0 ? 'completed' : (successCount === 0 ?
\* 'failed' : 'partial')
finalStatus(successCount, errorCount) ==
    IF errorCount = 0 THEN "completed"
    ELSE IF successCount = 0 THEN "failed" ELSE "partial"

\* handleBulkQueueExecute, lines 1566-1591: the job row is updated to the
\* final status and the request answered.
BulkFinish(r) ==
    /\ bulkReq[r].pc = "processFile"
    /\ bulkReq[r].files = <<>>
    /\ LET final == finalStatus(bulkReq[r].successCount, bulkReq[r].errorCount)
       IN  /\ \E answer \in StoreOutcomes :
                 bulkJob' = IF IsOk(answer) THEN [bulkJob EXCEPT !.status = final]
                            ELSE bulkJob
           /\ BulkAnswer(r, [bulkReq[r] EXCEPT !.writes = @ + 1], 200, TRUE, final)
    /\ UNCHANGED bulkFiles
    /\ UNCHANGED BulkRest

BulkNext ==
    \E r \in BulkRequests :
        \/ BulkFieldsMissing(r) \/ BulkSelectJob(r)
        \/ BulkInsertFile(r) \/ BulkUpdateJob(r)
        \/ BulkSelectFiles(r) \/ BulkMarkProcessing(r)
        \/ BulkProcessFile(r) \/ BulkFinish(r)

(***************************************************************************)
(* handleBulkQueueRemoveFile (get-sheet-tabs.js:1181-1260), run at the     *)
(* same time as another remove-file or an add-file on the same job.  A     *)
(* deleted row keeps its place in bulkFiles with the status 'deleted'.     *)
(***************************************************************************)
\* The fileId of a request that has none; the files are named by their places.
NoFileId == 0

BulkRemoveRequest(jobId, fileId) ==
    [action |-> "bulk-queue-remove-file", jobId |-> jobId, fileId |-> fileId,
     pc |-> "received", job |-> NoJob, selected |-> <<>>, files |-> <<>>,
     successCount |-> 0, errorCount |-> 0, writes |-> 0, uploaded |-> <<>>]

IsRemoveFile(r) == bulkReq[r].action = "bulk-queue-remove-file"

\* The file rows of the job that exist.
FileRecords(fileRows) == {k \in 1..Len(fileRows) : fileRows[k] # "deleted"}

BulkFilesInit ==
    /\ bulkJob \in {CreatedJob, BuildingJob}
    /\ bulkFiles = [k \in 1..bulkJob.files_count |-> "pending"]
    /\ bulkReq \in [BulkRequests ->
                      {BulkRequest("bulk-queue-add-file", j) : j \in BulkJobIds}
                          \cup {BulkRemoveRequest("job", f) : f \in {1, NoFileId}}]
    /\ bulkRes = [r \in BulkRequests |-> NoBulkResponse]

\* Lines 1185-1190: jobId or fileId is missing.
BulkRemoveFieldsMissing(r) ==
    /\ IsRemoveFile(r)
    /\ bulkReq[r].pc = "received"
    /\ bulkReq[r].jobId = Undefined \/ bulkReq[r].fileId = NoFileId
    /\ BulkAnswer(r, bulkReq[r], 400, FALSE, "none")
    /\ UNCHANGED <<bulkJob, bulkFiles>>
    /\ UNCHANGED BulkRest

\* Lines 1192-1206: the file row is selected; a select that failed or found
\* no such row is answered 404.
BulkSelectFile(r) ==
    /\ IsRemoveFile(r)
    /\ bulkReq[r].pc = "received"
    /\ bulkReq[r].jobId # Undefined /\ bulkReq[r].fileId # NoFileId
    /\ \E answer \in StoreOutcomes :
          IF ~IsOk(answer) \/ bulkReq[r].fileId \notin FileRecords(bulkFiles)
          THEN BulkAnswer(r, bulkReq[r], 404, FALSE, "none")
          ELSE BulkGoto(r, bulkReq[r], "deleteFile")
    /\ UNCHANGED <<bulkJob, bulkFiles>>
    /\ UNCHANGED BulkRest

\* Lines 1208-1220: the file row is deleted.
BulkDeleteFile(r) ==
    /\ bulkReq[r].pc = "deleteFile"
    /\ \E answer \in StoreOutcomes :
          LET sent == [bulkReq[r] EXCEPT !.writes = @ + 1]
          IN  IF IsOk(answer)
              THEN /\ bulkFiles' = [bulkFiles EXCEPT ![bulkReq[r].fileId] = "deleted"]
                   /\ BulkGoto(r, sent, "selectCount")
              ELSE /\ BulkAnswer(r, sent, 500, FALSE, "none")
                   /\ UNCHANGED bulkFiles
    /\ UNCHANGED bulkJob
    /\ UNCHANGED BulkRest

\* Lines 1222-1227 and 1239-1249: files_count of the job row is selected;
\* when the select failed the count is left as it is and the request is
\* answered as a success.
BulkSelectCount(r) ==
    /\ bulkReq[r].pc = "selectCount"
    /\ \E answer \in StoreOutcomes :
          IF IsOk(answer)
          THEN BulkGoto(r, [bulkReq[r] EXCEPT !.job = [status |-> "not selected",
                                                      files_count |-> bulkJob.files_count]],
                        "updateCount")
          ELSE BulkAnswer(r, bulkReq[r], 200, TRUE, "none")
    /\ UNCHANGED <<bulkJob, bulkFiles>>
    /\ UNCHANGED BulkRest

\* Lines 1229-1249: files_count is updated to the count read less one, and not
\* below 0; the answer of the update is not read.
BulkUpdateCount(r) ==
    /\ bulkReq[r].pc = "updateCount"
    /\ \E answer \in StoreOutcomes :
          bulkJob' = IF IsOk(answer)
                     THEN [bulkJob EXCEPT !.files_count = Max(0, bulkReq[r].job.files_count - 1)]
                     ELSE bulkJob
    /\ BulkAnswer(r, [bulkReq[r] EXCEPT !.writes = @ + 1], 200, TRUE, "none")
    /\ UNCHANGED bulkFiles
    /\ UNCHANGED BulkRest

BulkFilesNext ==
    \E r \in BulkRequests :
        \/ BulkFieldsMissing(r) \/ BulkSelectJob(r)
        \/ BulkInsertFile(r) \/ BulkUpdateJob(r)
        \/ BulkRemoveFieldsMissing(r) \/ BulkSelectFile(r)
        \/ BulkDeleteFile(r) \/ BulkSelectCount(r) \/ BulkUpdateCount(r)

(***************************************************************************)
(* Creating a spreadsheet: handleCreateSheet of sheets-api.js, the         *)
(* create-sheet endpoint (part_006), handleCreateSheetRedirect of the CSV  *)
(* API (get-sheet-tabs.js) and the older handleCreateSheet (part_005:368). *)
(* The request lives in the variables of the create-tab request; its field *)
(* usage is the row of the user in user_usage at the time of the request.  *)
(***************************************************************************)
SheetVariants == {"sheets-api", "create-sheet", "csv-api", "sheets-api-old"}

SheetRequest(variant, usage, token) ==
    [variant |-> variant, usage |-> usage, googleToken |-> token]

SheetRequests ==
    {SheetRequest(v, u, t) : v \in SheetVariants, u \in UsageRows, t \in {"token", Undefined}}

SheetInit ==
    /\ tabReq \in SheetRequests
    /\ tabPc = "sheet-received"
    /\ sheetTitles = {} /\ existingTabs = {} /\ tabCalls = <<>>
    /\ tabRes = NoTabResponse
    /\ req = DefaultRequest /\ pc = "idle" /\ uploadResult = NoUploadResult
    /\ calls = <<>> /\ resStatus = 0 /\ resBody = NoBody /\ sheetRows = <<>>
    /\ usageRow = NotRead

SheetRest ==
    <<tokVars, detVars, sanVars, parseVars, raceVars, bulkVars, clockVars, bgVars, req, pc, uploadResult,
      calls, resStatus, resBody, sheetRows, sheetTitles, existingTabs>>

\* The dispatchers of sheets-api.js (lines 55-61) and of part_005 (lines
\* 55-61) answer 400 to a request without googleToken before the action is
\* looked at; the dispatcher of the CSV API does not read the token, and the
\* create-sheet endpoint reads it after the trial gate.
SheetEntryError(r) ==
    IF r.variant \in {"sheets-api", "sheets-api-old"} /\ r.googleToken = Undefined
    THEN 400 ELSE 0

\* The handlers that select the usage row and test the trial: sheets-api.js
\* lines 302-330 and the create-sheet endpoint lines 53-81.
\* handleCreateSheetRedirect and the handleCreateSheet of part_005 begin with
\* the request body and the remote call.
HasTrialGate(variant) == variant \in {"sheets-api", "create-sheet"}

SheetReject ==
    /\ tabPc = "sheet-received"
    /\ SheetEntryError(tabReq) # 0
    /\ TabRespond(SheetEntryError(tabReq), FALSE)
    /\ UNCHANGED <<tabReq, tabCalls, usageRow>>
    /\ UNCHANGED SheetRest

\* No usage row is read: the handler goes to the remote call.
SheetNoGate ==
    /\ tabPc = "sheet-received"
    /\ SheetEntryError(tabReq) = 0
    /\ ~HasTrialGate(tabReq.variant)
    /\ tabPc' = "sheet-create"
    /\ UNCHANGED <<tabReq, tabCalls, tabRes, usageRow>>
    /\ UNCHANGED SheetRest

\* The usage row is read: a missing row is answered 401, an expired trial 402.
SheetUsageRejected ==
    /\ tabPc = "sheet-received"
    /\ SheetEntryError(tabReq) = 0
    /\ HasTrialGate(tabReq.variant)
    /\ UsageError(tabReq.usage).status # 0
    /\ usageRow' = tabReq.usage
    /\ TabRespond(UsageError(tabReq.usage).status, FALSE)
    /\ UNCHANGED <<tabReq, tabCalls>>
    /\ UNCHANGED SheetRest

\* The gate is passed; the create-sheet endpoint now reads the token (lines
\* 83-90).
SheetUsageAccepted ==
    /\ tabPc = "sheet-received"
    /\ SheetEntryError(tabReq) = 0
    /\ HasTrialGate(tabReq.variant)
    /\ UsageError(tabReq.usage).status = 0
    /\ usageRow' = tabReq.usage
    /\ IF tabReq.variant = "create-sheet" /\ tabReq.googleToken = Undefined
       THEN TabRespond(400, FALSE)
       ELSE tabPc' = "sheet-create" /\ UNCHANGED tabRes
    /\ UNCHANGED <<tabReq, tabCalls>>
    /\ UNCHANGED SheetRest

\* The status answered to a create call that was refused: the handler of
\* part_005 throws for every status, the others answer 401 to 401 and 403.
CreateSheetError(variant, status) ==
    IF variant # "sheets-api-old" /\ status \in {401, 403} THEN 401 ELSE 500

\* POST https://sheets.googleapis.com/v4/spreadsheets and the response.
SheetCreate ==
    /\ tabPc = "sheet-create"
    /\ \E status \in FetchOutcomes :
          /\ tabCalls' = Append(tabCalls, Call("create", status))
          /\ IF status = Thrown THEN TabRespond(500, FALSE)
             ELSE IF ~IsOk(status)
             THEN TabRespond(CreateSheetError(tabReq.variant, status),
                             tabReq.variant # "sheets-api-old" /\ status \in {401, 403})
             ELSE TabRespond(200, FALSE)
    /\ UNCHANGED <<tabReq, usageRow>>
    /\ UNCHANGED SheetRest

SheetNext ==
    \/ SheetReject \/ SheetNoGate \/ SheetUsageRejected \/ SheetUsageAccepted
    \/ SheetCreate

(***************************************************************************)
(* The trial status of user-info.js (lines 129-182) and the trial gate of  *)
(* handleCompleteUpload (csv-api.js:331-362), both computed from the       *)
(* user_usage row of one user and the time of the server.  Time is counted *)
(* in minutes.                                                             *)
(***************************************************************************)
MaxNow == 8
MaxTrialEnd == 2
Plans == {"trial", "pro"}

NoTrialStatus ==
    [at |-> 0 - 1, isActive |-> FALSE, isExpired |-> FALSE, unlimited |-> FALSE,
     needsUpgrade |-> FALSE]
NoGate == [at |-> 0 - 1, status |-> 0]

ClockIdle ==
    /\ now = 0 /\ usageData = [plan |-> "none", trial_ends_at |-> 0]
    /\ trialStatus = NoTrialStatus /\ gate = NoGate

ClockInit ==
    /\ now = 0
    /\ usageData \in [plan : Plans, trial_ends_at : 0..MaxTrialEnd]
    /\ trialStatus = NoTrialStatus
    /\ gate = NoGate

ClockRest ==
    <<tokVars, detVars, sanVars, parseVars, reqVars, tabVars, raceVars, bulkVars, bgVars>>

\* const bufferMinutes = 5; // 5 minute buffer
bufferMinutes == 5

\* user-info.js lines 144-147: now > trialEnd + bufferMinutes
isTrialExpired(time, usage) == time > usage.trial_ends_at + bufferMinutes

\* user-info.js lines 166-180: the trialStatus of the response.
TrialStatusAt(time, usage) ==
    [at |-> time,
     isActive |-> ~isTrialExpired(time, usage) /\ usage.plan = "trial",
     isExpired |-> isTrialExpired(time, usage) /\ usage.plan = "trial",
     unlimited |-> usage.plan \in {"pro", "basic", "enterprise"}
                      \/ (~isTrialExpired(time, usage) /\ usage.plan = "trial"),
     needsUpgrade |-> isTrialExpired(time, usage) /\ usage.plan = "trial"]

\* csv-api.js lines 345-347: now <= trialEnd
isTrialActive(time, usage) == time <= usage.trial_ends_at

\* csv-api.js lines 350-362: the status the gate answers, 0 when the upload
\* goes on.
GateAt(time, usage) ==
    [at |-> time,
     status |-> IF ~isTrialActive(time, usage) /\ usage.plan = "trial" THEN 402 ELSE 0]

\* A request to user-info is answered.
UserInfo ==
    /\ trialStatus' = TrialStatusAt(now, usageData)
    /\ UNCHANGED <<now, usageData, gate>>
    /\ UNCHANGED ClockRest

\* A complete-upload of the user reaches the gate.
TrialGate ==
    /\ gate' = GateAt(now, usageData)
    /\ UNCHANGED <<now, usageData, trialStatus>>
    /\ UNCHANGED ClockRest

\* A minute passes.
Tick ==
    /\ now < MaxNow
    /\ now' = now + 1
    /\ UNCHANGED <<usageData, trialStatus, gate>>
    /\ UNCHANGED ClockRest

ClockNext == UserInfo \/ TrialGate \/ Tick

(***************************************************************************)
(* The background script of the extension (process-csv.js).  JavaScript    *)
(* runs a listener or the continuation of an await to its next await       *)
(* without interruption, so a step of the model is one such run.  A        *)
(* csvInfo object is shared by reference between the queue, lastCSVDownload*)
(* and interceptCSVContent: the objects are kept in csvInfos and named by  *)
(* their index, which is also the order in which they were pushed.  The    *)
(* calls of chrome.storage.local take effect in the order they are issued  *)
(* and succeed.  The messages GET_LAST_CSV and CSV_PROCESSED change none   *)
(* of the variables, and neither does a download or a request that         *)
(* isCSVFile rejects.                                                      *)
(***************************************************************************)
MaxDetections == 3

\* const csvInfo = { ..., state: downloadItem.state || 'in_progress', type }
CsvInfo(type, fetchable) ==
    [type |-> type, fetchable |-> fetchable, content |-> FALSE, state |-> "in_progress"]

\* chrome.storage.local without the key 'lastCSVDownload'.
NoEntry == [id |-> 0, content |-> FALSE, state |-> "none"]

\* What chrome.storage.local.set({ 'lastCSVDownload': csvInfo }) stores: a copy
\* of the object as it is at the call.
Stored(infos, k) == [id |-> k, content |-> infos[k].content, state |-> infos[k].state]

\* The sequence s without its element at position d.
Remove(s, d) == SubSeq(s, 1, d - 1) \o SubSeq(s, d + 1, Len(s))

BgIdle ==
    /\ lastCSVDownload = 0 /\ csvDetectionQueue = <<>> /\ isProcessingQueue = FALSE
    /\ csvInfos = <<>> /\ storage = NoEntry /\ drains = <<>> /\ intercepts = <<>>
    /\ searches = {} /\ handled = <<>>

\* let lastCSVDownload = null; let csvDetectionQueue = []; let isProcessingQueue = false;
BgInit == BgIdle

BgRest ==
    <<tokVars, detVars, sanVars, parseVars, reqVars, tabVars, raceVars, bulkVars, clockVars>>

\* if (isProcessingQueue || csvDetectionQueue.length === 0) return;
ProcessReturnsOnEmptyOnly(processing, queue) == Len(queue) = 0
ProcessReturns(processing, queue) == processing \/ Len(queue) = 0

\* const csvInfo = csvDetectionQueue.shift(); and handleCSVDetection(csvInfo) up
\* to its first await: lastCSVDownload = csvInfo; chrome.storage.local.set(...)
HandleNext(queue, infos) ==
    /\ csvDetectionQueue' = Tail(queue)
    /\ lastCSVDownload' = Head(queue)
    /\ storage' = Stored(infos, Head(queue))
    /\ handled' = Append(handled, Head(queue))

\* csvDetectionQueue.push(csvInfo); processCSVQueue(); and, for a download,
\* interceptCSVContent(csvInfo) up to its first await.
Detected(type, fetchable) ==
    /\ Len(csvInfos) < MaxDetections
    /\ LET infos == Append(csvInfos, CsvInfo(type, fetchable))
           queue == Append(csvDetectionQueue, Len(infos))
       IN  /\ csvInfos' = infos
           /\ intercepts' = Append(intercepts, IF type = "download_api" THEN "sleep" ELSE "none")
           /\ IF ProcessReturns(isProcessingQueue, queue)
              THEN /\ csvDetectionQueue' = queue
                   /\ UNCHANGED <<lastCSVDownload, isProcessingQueue, storage, drains, handled>>
              ELSE /\ isProcessingQueue' = TRUE
                   /\ HandleNext(queue, infos)
                   /\ drains' = Append(drains, "set")
    /\ UNCHANGED searches
    /\ UNCHANGED BgRest

\* chrome.downloads.onCreated for a download that isCSVFile accepts; its url
\* is one fetch can be tried on, or a blob: or data: url.
DownloadCreated == \E fetchable \in BOOLEAN : Detected("download_api", fetchable)

\* chrome.webRequest.onBeforeRequest for a url that isCSVFile accepts.
WebRequest == Detected("web_request", FALSE)

\* handleCSVDetection after await chrome.storage.local.set: the badge, and
\* await chrome.notifications.create where the browser has notifications.
DrainStored(d) ==
    /\ drains[d] = "set"
    /\ \E hasNotifications \in BOOLEAN :
           drains' = [drains EXCEPT ![d] = IF hasNotifications THEN "notify" ELSE "delay"]
    /\ UNCHANGED <<lastCSVDownload, csvDetectionQueue, isProcessingQueue, csvInfos, storage,
                   intercepts, searches, handled>>
    /\ UNCHANGED BgRest

\* handleCSVDetection after the notification (created or failed): the message
\* to the popup, the return, and await new Promise(setTimeout 100).
DrainNotified(d) ==
    /\ drains[d] = "notify"
    /\ drains' = [drains EXCEPT ![d] = "delay"]
    /\ UNCHANGED <<lastCSVDownload, csvDetectionQueue, isProcessingQueue, csvInfos, storage,
                   intercepts, searches, handled>>
    /\ UNCHANGED BgRest

\* After the delay: while (csvDetectionQueue.length > 0) takes the next
\* detection, or the loop ends with isProcessingQueue = false.
DrainDelayed(d) ==
    /\ drains[d] = "delay"
    /\ IF Len(csvDetectionQueue) > 0
       THEN /\ HandleNext(csvDetectionQueue, csvInfos)
            /\ drains' = [drains EXCEPT ![d] = "set"]
            /\ UNCHANGED isProcessingQueue
       ELSE /\ isProcessingQueue' = FALSE
            /\ drains' = Remove(drains, d)
            /\ UNCHANGED <<lastCSVDownload, csvDetectionQueue, storage, handled>>
    /\ UNCHANGED <<csvInfos, intercepts, searches>>
    /\ UNCHANGED BgRest

\* A step of a drain loop (processCSVQueue).
DrainStep == \E d \in 1..Len(drains) : DrainStored(d) \/ DrainNotified(d) \/ DrainDelayed(d)

\* interceptCSVContent after the 500 ms: fetch(csvInfo.url) unless the url is
\* a blob: or data: url.
InterceptSleep(k) ==
    /\ intercepts[k] = "sleep"
    /\ intercepts' = [intercepts EXCEPT ![k] = IF csvInfos[k].fetchable THEN "fetch" ELSE "done"]
    /\ UNCHANGED <<lastCSVDownload, csvDetectionQueue, isProcessingQueue, csvInfos, storage,
                   drains, searches, handled>>
    /\ UNCHANGED BgRest

\* The fetch is answered (response.ok or not) or throws.
InterceptFetch(k) ==
    /\ intercepts[k] = "fetch"
    /\ \E ok \in BOOLEAN : intercepts' = [intercepts EXCEPT ![k] = IF ok THEN "text" ELSE "done"]
    /\ UNCHANGED <<lastCSVDownload, csvDetectionQueue, isProcessingQueue, csvInfos, storage,
                   drains, searches, handled>>
    /\ UNCHANGED BgRest

\* response.text() is read: with a content, csvInfo.content = content and
\* chrome.storage.local.set({ 'lastCSVDownload': csvInfo }).
InterceptText(k) ==
    /\ intercepts[k] = "text"
    /\ \E hasContent \in BOOLEAN :
           IF hasContent
           THEN /\ csvInfos' = [csvInfos EXCEPT ![k].content = TRUE]
                /\ storage' = Stored(csvInfos', k)
                /\ intercepts' = [intercepts EXCEPT ![k] = "set"]
           ELSE /\ intercepts' = [intercepts EXCEPT ![k] = "done"]
                /\ UNCHANGED <<csvInfos, storage>>
    /\ UNCHANGED <<lastCSVDownload, csvDetectionQueue, isProcessingQueue, drains, searches,
                   handled>>
    /\ UNCHANGED BgRest

\* interceptCSVContent after await chrome.storage.local.set: the message to
\* the popup and the return.
InterceptStored(k) ==
    /\ intercepts[k] = "set"
    /\ intercepts' = [intercepts EXCEPT ![k] = "done"]
    /\ UNCHANGED <<lastCSVDownload, csvDetectionQueue, isProcessingQueue, csvInfos, storage,
                   drains, searches, handled>>
    /\ UNCHANGED BgRest

\* A step of an interceptCSVContent.
InterceptStep ==
    \E k \in 1..Len(intercepts) :
        InterceptSleep(k) \/ InterceptFetch(k) \/ InterceptText(k) \/ InterceptStored(k)

\* lastCSVDownload = null; chrome.storage.local.remove(['lastCSVDownload']);
Clear ==
    /\ lastCSVDownload' = 0
    /\ storage' = NoEntry
    /\ UNCHANGED <<csvDetectionQueue, isProcessingQueue, csvInfos, drains, intercepts, searches,
                   handled>>
    /\ UNCHANGED BgRest

\* chrome.runtime.onMessage for the two messages that clear the detection.
Message == \E type \in {"CLEAR_CSV", "CSV_UPLOADED"} : Clear

\* The setInterval callback when the detection is older than ten minutes.
ClearOld == lastCSVDownload # 0 /\ Clear

\* chrome.downloads.onChanged with state.current 'complete' for the download
\* of lastCSVDownload (a web_request csvInfo has no downloadId).
DownloadChanged ==
    /\ lastCSVDownload # 0
    /\ csvInfos[lastCSVDownload].type = "download_api"
    /\ csvInfos[lastCSVDownload].state # "complete"
    /\ csvInfos' = [csvInfos EXCEPT ![lastCSVDownload].state = "complete"]
    /\ storage' = Stored(csvInfos', lastCSVDownload)
    /\ searches' = IF csvInfos[lastCSVDownload].content THEN searches
                   ELSE searches \cup {lastCSVDownload}
    /\ UNCHANGED <<lastCSVDownload, csvDetectionQueue, isProcessingQueue, drains, intercepts,
                   handled>>
    /\ UNCHANGED BgRest

\* The callback of chrome.downloads.search in
\* attemptContentExtractionFromCompletedDownload: with a result,
\* chrome.storage.local.set({ 'lastCSVDownload': csvInfo }).
SearchCallback ==
    \E k \in searches :
        /\ searches' = searches \ {k}
        /\ \E found \in BOOLEAN :
               storage' = IF found THEN Stored(csvInfos, k) ELSE storage
        /\ UNCHANGED <<lastCSVDownload, csvDetectionQueue, isProcessingQueue, csvInfos, drains,
                       intercepts, handled>>
        /\ UNCHANGED BgRest

BgNext ==
    \/ DownloadCreated
    \/ WebRequest
    \/ DrainStep
    \/ InterceptStep
    \/ Message
    \/ ClearOld
    \/ DownloadChanged
    \/ SearchCallback

(***************************************************************************)
(* Specifications of the pure functions: the inputs are drawn in the       *)
(* initial state and the function runs one statement at a time.            *)
(***************************************************************************)
InitTok == TokInit /\ DetIdle /\ SanIdle /\ ParseIdle /\ ReqIdle /\ TabIdle /\ RaceIdle /\ BulkIdle /\ ClockIdle /\ BgIdle
SpecTok == InitTok /\ [][TokNext]_vars

InitDetect == DetInit /\ TokIdle /\ SanIdle /\ ParseIdle /\ ReqIdle /\ TabIdle /\ RaceIdle /\ BulkIdle /\ ClockIdle /\ BgIdle
SpecDetect == InitDetect /\ [][DetNext]_vars

InitSan == SanInit /\ TokIdle /\ DetIdle /\ ParseIdle /\ ReqIdle /\ TabIdle /\ RaceIdle /\ BulkIdle /\ ClockIdle /\ BgIdle
SpecSan == InitSan /\ [][SanNext]_vars

InitParse == ParseInit /\ TokIdle /\ DetIdle /\ SanIdle /\ ReqIdle /\ TabIdle /\ RaceIdle /\ BulkIdle /\ ClockIdle /\ BgIdle
SpecParse == InitParse /\ [][ParseNext]_vars

(***************************************************************************)
(* The specification of a request to the CSV API.                          *)
(***************************************************************************)
Init == ReqInit /\ TokIdle /\ DetIdle /\ ParseLocalsIdle /\ TabIdle /\ RaceIdle /\ BulkIdle /\ ClockIdle /\ BgIdle
Spec == Init /\ [][Next]_vars

(***************************************************************************)
(* The specification of a create-tab request.                              *)
(***************************************************************************)
InitTab == TabInit /\ TokIdle /\ DetIdle /\ SanIdle /\ ParseIdle /\ ReqIdle /\ RaceIdle /\ BulkIdle /\ ClockIdle /\ BgIdle
SpecTab == InitTab /\ [][TabNext]_vars

(***************************************************************************)
(* The specification of a request to the upload endpoint with four modes,  *)
(* and the one of a request to either upload handler.                      *)
(***************************************************************************)
InitModes == ModesInit /\ TokIdle /\ DetIdle /\ ParseLocalsIdle /\ TabIdle /\ RaceIdle /\ BulkIdle /\ ClockIdle /\ BgIdle
SpecModes == InitModes /\ [][ModesNext]_vars

(***************************************************************************)
(* The specification of two replace uploads to one tab.                    *)
(***************************************************************************)
InitRace == RaceInit /\ TokIdle /\ DetIdle /\ SanIdle /\ ParseIdle /\ TabIdle /\ BulkIdle /\ ClockIdle /\ BgIdle
SpecRace == InitRace /\ [][RaceNext]_vars

(***************************************************************************)
(* The specification of two create-tab requests for one spreadsheet.       *)
(***************************************************************************)
InitTabRace == TabRaceInit /\ TokIdle /\ DetIdle /\ SanIdle /\ ParseIdle /\ ReqIdle /\ BulkIdle /\ ClockIdle /\ BgIdle
SpecTabRace == InitTabRace /\ [][TabRaceNext]_vars

(***************************************************************************)
(* The specification of a request to the first upload endpoint.            *)
(***************************************************************************)
InitUploadCsv == UploadCsvInit /\ TokIdle /\ DetIdle /\ ParseLocalsIdle /\ TabIdle /\ RaceIdle /\ BulkIdle /\ ClockIdle /\ BgIdle
SpecUploadCsv == InitUploadCsv /\ [][UploadCsvNext]_vars

(***************************************************************************)
(* The specification of two requests to the bulk queue of one job.         *)
(***************************************************************************)
InitBulk ==
    BulkInit /\ TokIdle /\ DetIdle /\ SanIdle /\ ParseIdle /\ ReqIdle /\ TabIdle /\ RaceIdle /\ ClockIdle /\ BgIdle
SpecBulk == InitBulk /\ [][BulkNext]_vars

(***************************************************************************)
(* The specification of two requests that add a file to a bulk job or      *)
(* remove one from it.                                                     *)
(***************************************************************************)
InitBulkFiles ==
    BulkFilesInit /\ TokIdle /\ DetIdle /\ SanIdle /\ ParseIdle /\ ReqIdle /\ TabIdle /\ RaceIdle /\ ClockIdle /\ BgIdle
SpecBulkFiles == InitBulkFiles /\ [][BulkFilesNext]_vars

(***************************************************************************)
(* The specification of a create-sheet request.                            *)
(***************************************************************************)
InitSheet ==
    SheetInit /\ TokIdle /\ DetIdle /\ SanIdle /\ ParseIdle /\ RaceIdle /\ BulkIdle /\ ClockIdle /\ BgIdle
SpecSheet == InitSheet /\ [][SheetNext]_vars

(***************************************************************************)
(* The specification of the trial of one user as time passes.              *)
(***************************************************************************)
InitClock ==
    ClockInit /\ TokIdle /\ DetIdle /\ SanIdle /\ ParseIdle /\ ReqIdle /\ TabIdle /\ RaceIdle
        /\ BulkIdle /\ BgIdle
SpecClock == InitClock /\ [][ClockNext]_vars

(***************************************************************************)
(* The specification of the background script.  The promises of            *)
(* chrome.storage.local.set and chrome.notifications.create settle and the *)
(* timer of the delay fires, so a drain loop that can take a step takes it.*)
(***************************************************************************)
InitBackground ==
    BgInit /\ TokIdle /\ DetIdle /\ SanIdle /\ ParseIdle /\ ReqIdle /\ TabIdle /\ RaceIdle
        /\ BulkIdle /\ ClockIdle
SpecBackground == InitBackground /\ [][BgNext]_vars /\ WF_vars(DrainStep)

InitUploads == Init \/ InitModes
NextUploads == Next \/ ModesNext
SpecUploads == InitUploads /\ [][NextUploads]_vars

(***************************************************************************)
(* Claims about parseCSVLine.                                              *)
(***************************************************************************)
QuotesBefore(ln, p) == Cardinality({q \in 1..(p - 1) : ln[q] = Quote})

\* The delimiters of a line that stand outside quotes: those with an even
\* number of quote characters before them.
DelimitersOutsideQuotes(ln, d) ==
    Cardinality({p \in 1..Len(ln) : ln[p] = d /\ QuotesBefore(ln, p) % 2 = 0})

\* C1: parseCSVLine returns (delimiters read outside quotes) + 1 fields; a
\* delimiter read inside quotes starts no field and is kept in the current
\* field; the line's end, quoted or not, pushes the buffered field; and
\* a,"b,c",d with ',' yields [a | b,c | d].
C1_FieldCount ==
    /\ [](tpc = "returned" =>
            /\ Len(result) = DelimitersOutsideQuotes(line, delimiter) + 1
            /\ result[Len(result)] = trim(current))
    /\ [](tpc = "returned" /\ line = ExampleQuoted /\ delimiter = "," =>
            result = << <<"a">>, <<"b", ",", "c">>, <<"d">> >>)
    /\ [][tpc = "loop" /\ i < Len(line) /\ line[i + 1] = delimiter /\ inQuotes =>
            result' = result /\ current' = Append(current, delimiter)]_vars
    /\ [][tpc = "loop" /\ tpc' = "returned" => Len(result') = Len(result) + 1]_vars

C1_Witness ==
    /\ tpc = "returned" /\ line = ExampleQuoted /\ delimiter = ","
    /\ Len(result) = 3 /\ result[2] = <<"b", ",", "c">>

\* C2: a quote read inside quotes and followed by a quote appends one literal
\* quote, consumes both characters and stays inside quotes; any other quote
\* only toggles inQuotes and is not appended; "he said ""hi""",ok yields
\* [he said "hi" | ok].
C2_QuoteHandling ==
    /\ [][TokAtEscape =>
            /\ current' = Append(current, Quote)
            /\ i' = i + 2
            /\ inQuotes'
            /\ result' = result]_vars
    /\ [][TokAtQuote /\ ~TokAtEscape =>
            /\ current' = current
            /\ i' = i + 1
            /\ inQuotes' = ~inQuotes
            /\ result' = result]_vars
    /\ [](tpc = "returned" /\ line = ExampleEscaped /\ delimiter = "," =>
            result = << <<"h", "e", " ", "s", "a", "i", "d", " ", Quote, "h", "i", Quote>>,
                        <<"o", "k">> >>)

C2_Witness ==
    /\ tpc = "returned" /\ line = ExampleEscaped /\ delimiter = ","
    /\ Len(result) = 2 /\ Len(result[1]) = 12

(***************************************************************************)
(* Claims about detectDelimiter.                                           *)
(***************************************************************************)
\* Occurrences of c before the first newline of s.
CountInFirstLine(s, c) ==
    Cardinality({p \in 1..Len(s) : s[p] = c /\ \A q \in 1..p : s[q] # NL})

DelimiterRank(d) == CHOOSE k \in 1..Len(delimiters) : delimiters[k] = d

\* C3: detectDelimiter returns the candidate of (',', ';', tab, '|') with the
\* most occurrences in the first line, the first of them in that order on a
\* tie, and ',' when no candidate occurs.
C3_DetectDelimiter ==
    dpc = "returned" =>
        /\ \E k \in 1..Len(delimiters) : delimiters[k] = bestDelimiter
        /\ \A k \in 1..Len(delimiters) :
              CountInFirstLine(detContent, delimiters[k])
                  <= CountInFirstLine(detContent, bestDelimiter)
        /\ \A k \in 1..Len(delimiters) :
              k < DelimiterRank(bestDelimiter) =>
                  CountInFirstLine(detContent, delimiters[k])
                      < CountInFirstLine(detContent, bestDelimiter)
        /\ ((\A k \in 1..Len(delimiters) :
                CountInFirstLine(detContent, delimiters[k]) = 0)
              => bestDelimiter = ",")
        /\ (detContent = ExampleDetect => bestDelimiter = ";")

\* A tie between ';' and '|' on the first line, and a second line that would
\* change the answer had it been counted.
C3_Witness ==
    /\ dpc = "returned"
    /\ detContent = <<"|", ";", NL, "|">>
    /\ bestDelimiter = ";"

(***************************************************************************)
(* Claims about parseCSVContent.                                           *)
(***************************************************************************)
ExampleHeaders == << <<"h", "1">>, <<"h", "2">> >>
ExampleDataRows == << << <<"1">>, <<"2">> >>, << <<"3">>, <<"4">> >> >>

\* C4: with headerHandling 'use' and at least one parsed row, headers is the
\* first parsed row, the data rows are the remaining parsed rows in order and
\* sheetData is the headers row followed by the data rows, one row more than
\* the data rows; h1,h2 / 1,2 / 3,4 yields headers [h1, h2], data rows
\* [[1, 2], [3, 4]] and a sheetData of 3 rows.
C4_UseHeaders ==
    (ppc = "returned" /\ csvResult.success
        /\ options.headerHandling = "use" /\ Len(rows) >= 1) =>
        /\ csvResult.headers = rows[1]
        /\ csvResult.rows = Tail(rows)
        /\ csvResult.sheetData = <<rows[1]>> \o Tail(rows)
        /\ Len(csvResult.sheetData) = Len(csvResult.rows) + 1
        /\ (parseContent = ExampleTable =>
              /\ csvResult.headers = ExampleHeaders
              /\ csvResult.rows = ExampleDataRows
              /\ Len(csvResult.sheetData) = 3)

C4_Witness ==
    /\ ppc = "returned" /\ csvResult.success
    /\ options.headerHandling = "use" /\ parseContent = ExampleTable
    /\ csvResult.headers = ExampleHeaders
    /\ Len(csvResult.sheetData) = 3

\* C5: with headerHandling 'skip' and at least one parsed row, the first
\* parsed row is dropped: headers is null, the data rows are the parsed rows
\* after the first, in order, and sheetData is the data rows; h1,h2 / 1,2 / 3,4
\* yields data rows [[1, 2], [3, 4]].
C5_SkipHeaders ==
    (ppc = "returned" /\ csvResult.success
        /\ options.headerHandling = "skip" /\ Len(rows) >= 1) =>
        /\ csvResult.headers = Null
        /\ csvResult.rows = Tail(rows)
        /\ csvResult.sheetData = Tail(rows)
        /\ (parseContent = ExampleTable => csvResult.rows = ExampleDataRows)

C5_Witness ==
    /\ ppc = "returned" /\ csvResult.success
    /\ options.headerHandling = "skip" /\ parseContent = ExampleTable
    /\ csvResult.headers = Null
    /\ csvResult.sheetData = ExampleDataRows

(***************************************************************************)
(* Claims about the sanitizer.                                             *)
(***************************************************************************)
Occurs(s, pre) == \E p \in 1..Len(s) : StartsWithAt(s, p, pre)

\* C7: the sanitizer removes every substring that is a file:// URI, from its
\* start up to the next white space or comma, and leaves the other characters
\* as they are: the first statement yields the content without its file://
\* URIs, and no file:// is left in the sanitized text.
C7_RemovesEveryFileUri ==
    /\ spc = "fileUrisRemoved" =>
          sanitizedContent = RemovePrefixedFrom(csvContent, 1, FileScheme)
    /\ spc = "sanitized" => ~Occurs(sanitizedContent, FileScheme)

\* A line that is entirely a bare http:// or https:// URL.
BareUrl(l) ==
    /\ \/ Len(l) >= 7 /\ SubSeq(l, 1, 7) = Http
       \/ Len(l) >= 8 /\ SubSeq(l, 1, 8) = Https
    /\ \A p \in 1..Len(l) : l[p] \notin {" ", TAB, NL, ","}

\* C8: the sanitizer removes a line if and only if the whole line is a bare
\* http(s) URL, a line holding a URL beside other cell data reaches the parser
\* (up to surrounding white space) as it was, and no line of the sanitized
\* text is entirely a bare http(s) URL.
C8_UrlLines ==
    /\ spc = "urlLinesRemoved" =>
          LET before == Split(RemoveFileUris(csvContent))
              after == Split(sanitizedContent)
          IN  /\ Len(after) = Len(before)
              /\ \A k \in 1..Len(before) :
                    after[k] = IF BareUrl(before[k]) THEN <<>> ELSE before[k]
    /\ spc = "sanitized" =>
          LET given == Split(csvContent)
              kept == Split(sanitizedContent)
          IN  /\ \A k \in 1..Len(given) :
                    (/\ Occurs(given[k], Http) \/ Occurs(given[k], Https)
                     /\ Occurs(given[k], <<",">>)
                     /\ ~Occurs(given[k], FileUriPrefix))
                    => \E j \in 1..Len(kept) : trim(kept[j]) = trim(given[k])
              /\ \A j \in 1..Len(kept) : ~BareUrl(kept[j])

NoRowsRetained ==
    /\ sanitizedContent # NotAString
    /\ RetainedLines(sanitizedContent, req.processingOptions) = <<>>

\* C6: an input that leaves no row after sanitization and blank-line removal is
\* a parse failure and never an empty success, in the preview and in the
\* upload: the parser does not report success for it, and no request with
\* such a content is answered with a success.
C6_NoRowsIsFailure ==
    /\ pc \in {"previewParsed", "uploadParsed"} /\ NoRowsRetained => ~csvResult.success
    /\ pc = "done" /\ req.method = "POST" /\ resStatus = 200 => ~NoRowsRetained

LookupReturned ==
    /\ Len(tabCalls) >= 1
    /\ tabCalls[1].api = "getTabs"
    /\ IsOk(tabCalls[1].status)

NameIsTaken ==
    \E title \in existingTabs :
        toLowerCase(title) = toLowerCase(trim(tabReq.tabName))

\* C9: a create-tab request whose trimmed name equals, ignoring letter case, a
\* title the lookup of the tabs returned is answered with 409, and the lookup
\* is the only remote call of that request: no addSheet and no write.
C9_ConflictBeforeCreate ==
    LookupReturned /\ NameIsTaken =>
        /\ tabPc = "done"
        /\ tabRes.status = 409
        /\ tabCalls = <<Call("getTabs", tabCalls[1].status)>>

C9_Witness ==
    /\ tabReq.tabName = <<" ", "A">>
    /\ existingTabs = {<<"a">>, <<"B">>}
    /\ tabCalls = <<Call("getTabs", 200)>>
    /\ tabRes.status = 409

TokenRefused ==
    /\ calls # <<>>
    /\ calls[1].status # Thrown
    /\ ~IsOk(calls[1].status)

\* C10: in every upload mode the token test is the first remote call of
\* uploadToGoogleSheets; when it is answered with a refusal the upload is
\* reported as an expired authentication (401, needsReauth) and the token test
\* stays the only remote call of the request.
C10_TokenTestFirst ==
    /\ calls # <<>> => calls[1].api = "userinfo"
    /\ \A mode \in {Undefined, "append", "replace", "replace-sheet"} :
          req.uploadOptions.mode = mode /\ TokenRefused =>
             /\ Len(calls) = 1
             /\ pc \in {"uploadReturned", "done"}
             /\ uploadResult = AuthExpiredResult
             /\ pc = "done" =>
                   /\ resStatus = 401
                   /\ resBody.needsReauth
                   /\ resBody.error = "Google authentication expired"

C10_Witness ==
    /\ req.uploadOptions.mode = "replace"
    /\ calls = <<Call("userinfo", 403)>>
    /\ pc = "done"
    /\ resStatus = 401
    /\ resBody.needsReauth

SheetWriterCalls == {"userinfo", "getSpreadsheet", "clear", "put", "append"}

\* C11: during an upload a 401 or 403 answer to any remote call of the writer
\* (token test, spreadsheet lookup, clear, put or append) makes the request end
\* as an expired authentication: status 401 with needsReauth.
C11_AuthRefusalIsAuthExpired ==
    \A k \in 1..Len(calls) :
        /\ calls[k].api \in SheetWriterCalls
        /\ calls[k].status \in {401, 403}
        /\ pc = "done"
        => resStatus = 401 /\ resBody.needsReauth

\* The request is one to the endpoint with four modes.
IsModesRequest == "sheetName" \in DOMAIN req

\* The directive asks for an append, is missing, or is not one the handler
\* knows.
AppendDirective ==
    IF IsModesRequest
    THEN req.uploadOptions.mode \notin {"replace-sheet", "replace-spreadsheet", "new-spreadsheet"}
    ELSE req.uploadOptions.mode # "replace"

CallsOf(api) == {k \in 1..Len(calls) : calls[k].api = api}

IsPrefix(s, t) == Len(s) <= Len(t) /\ SubSeq(t, 1, Len(s)) = s

\* C12: in append mode, which a missing or unknown directive also selects, the
\* writer makes no clear and no put call and at most one append call, exactly
\* one when the upload succeeds, and no step of the request overwrites or
\* removes a row the tab held before it.
C12_AppendOnly ==
    /\ [](AppendDirective =>
            /\ CallsOf("clear") = {} /\ CallsOf("put") = {}
            /\ Cardinality(CallsOf("append")) <= 1
            /\ (uploadResult.success => Cardinality(CallsOf("append")) = 1))
    /\ [][AppendDirective => IsPrefix(sheetRows, sheetRows')]_vars

C12_Witness ==
    /\ ~IsModesRequest
    /\ req.uploadOptions.mode = "replace-sheet"
    /\ pc = "done"
    /\ uploadResult.success
    /\ calls[3].api = "append"
    /\ sheetRows = OldRows \o << << <<"a">> >> >>

\* The directive asks for the tab to be replaced.
ReplaceDirective ==
    IF IsModesRequest
    THEN req.uploadOptions.mode = "replace-sheet"
    ELSE req.uploadOptions.mode = "replace"

\* The answer was a status other than 2xx.
Refusal(status) == status # Thrown /\ ~IsOk(status)

RaceAllApplied ==
    /\ Len(raceCalls) = 4
    /\ \A k \in 1..4 : IsOk(raceCalls[k].status)

LastPut == CHOOSE k \in 1..Len(raceCalls) :
               /\ raceCalls[k].api = "put"
               /\ \A j \in (k + 1)..Len(raceCalls) : raceCalls[j].api # "put"

\* C14: when two replace uploads to one tab run at the same time, in whatever
\* order their four calls are applied, the rows of the tab in the end are
\* exactly the sheetData of the request whose put was applied last.
C14_LastWriterWins ==
    RaceAllApplied => sheetRows = raceData[raceCalls[LastPut].request]

(***************************************************************************)
(* Claims about what follows a successful write.                           *)
(***************************************************************************)
IsUploadCsvRequest == "uploadMode" \in DOMAIN req
WriteSucceeded ==
    \E k \in 1..Len(calls) : calls[k].api \in {"put", "append"} /\ IsOk(calls[k].status)
FormattingFailed ==
    \E k \in 1..Len(calls) :
        calls[k].api \in {"getSheetId", "batchUpdate"} /\ ~IsOk(calls[k].status)
RowsWritten ==
    IF IsUploadCsvRequest THEN Len(csvResult.rows) ELSE Len(csvResult.sheetData)

\* C15: once the write call of an upload has succeeded, a failed formatting
\* call leaves the response a success that reports the rows written.
C15_FormattingIsNotFatal ==
    (pc = "done" /\ WriteSucceeded /\ FormattingFailed) =>
        /\ resStatus = 200
        /\ resBody.success
        /\ resBody.upload.rowsUploaded = RowsWritten

StoreCallFailed ==
    \E k \in 1..Len(calls) :
        calls[k].api \in {"increment_usage", "insertLog"} /\ ~IsOk(calls[k].status)

\* C16: once the remote write of an upload has succeeded, the response is a
\* success with the rows and the destination of the write, whatever the
\* outcome of the usage-counter update and of the log insert.
C16_LoggingIsNotFatal ==
    (pc = "done" /\ uploadResult.success) =>
        /\ resStatus = 200
        /\ resBody.success
        /\ resBody.upload = uploadResult.upload
        /\ resBody.upload = Upload(Len(csvResult.sheetData), req.spreadsheetId)

C16_Witness ==
    /\ pc = "done"
    /\ uploadResult.success
    /\ \E k \in 1..Len(calls) : calls[k] = Call("increment_usage", 500)
    /\ \E k \in 1..Len(calls) : calls[k] = Call("insertLog", 500)
    /\ StoreCallFailed
    /\ resBody.upload.rowsUploaded = 2

(***************************************************************************)
(* Claims about the order of the remote calls of one upload.               *)
(***************************************************************************)
SheetsApis ==
    {"userinfo", "getSpreadsheet", "create", "clear", "put", "append",
     "getSheetId", "batchUpdate"}
RemoteWrites == {"create", "clear", "put", "append"}

\* The calls whose failure ends the upload: the token test, the lookup, the
\* creation of a spreadsheet and the call that writes the rows.
Decisive == {"userinfo", "getSpreadsheet", "create", "put", "append"}
FailedAt(k) == calls[k].api \in Decisive /\ ~IsOk(calls[k].status)
LastSheetsCall(k) == \A j \in (k + 1)..Len(calls) : calls[j].api \notin SheetsApis

\* What uploadToGoogleSheets of csv-api.js returns for a failed call.
FailureOf(call) ==
    IF call.status = Thrown THEN FailedResult("fetch failed")
    ELSE IF call.api = "userinfo" THEN AuthExpiredResult
    ELSE IF call.api = "getSpreadsheet"
         THEN FailedResult("Cannot access spreadsheet. Check permissions.")
    ELSE FailedResult("Upload failed")

\* C17: a request issues each remote write at most once; a failed token test,
\* lookup, creation or write of the rows is the last call to the Sheets
\* service, and the request reports that failure.
C17_StopsAtFirstFailure ==
    /\ \A api \in RemoteWrites : Cardinality(CallsOf(api)) <= 1
    /\ \A k \in 1..Len(calls) :
          FailedAt(k) =>
             /\ LastSheetsCall(k)
             /\ pc \in {"uploadReturned", "modes-returned", "done"}
             /\ ~uploadResult.success
             /\ ~IsModesRequest => uploadResult = FailureOf(calls[k])
             /\ pc = "done" =>
                   /\ ~resBody.success
                   /\ resStatus \in {400, 401, 500}
                   /\ ~IsModesRequest => resStatus = FailureStatus(FailureOf(calls[k]))

C17_Witness ==
    /\ pc = "done"
    /\ ~IsModesRequest
    /\ Len(calls) = 4
    /\ calls[3].api = "clear"
    /\ calls[4] = Call("put", 500)
    /\ req.uploadOptions.autoFormat
    /\ resStatus = 400

(***************************************************************************)
(* Claims about handleCompleteUpload.                                      *)
(***************************************************************************)
NothingToWrite == pc = "uploadParsed" /\ Len(csvResult.sheetData) = 0

\* C18: when the parse of an upload leaves no row to write, no remote call
\* has been made, and the next step answers HTTP 400 without making one.
C18_NoRowsIsClientError ==
    /\ [](NothingToWrite => calls = <<>>)
    /\ [][NothingToWrite =>
            /\ pc' = "done"
            /\ resStatus' = 400
            /\ ~resBody'.success
            /\ calls' = <<>>]_vars

C18_Witness ==
    /\ pc = "done"
    /\ req.action = "complete-upload"
    /\ csvResult.success
    /\ csvResult.sheetData = <<>>
    /\ csvContent = <<"a">>
    /\ resStatus = 400
    /\ resBody.error = "No data found in CSV file"
    /\ calls = <<>>

JustParsed == pc \in {"previewParsed", "uploadParsed"}

\* C19: in the preview and in the upload, what parseCSVContent was given is
\* the sanitized text of the request's content; a content that is no text is
\* not parsed at all.
C19_ParserSeesSanitizedContent ==
    JustParsed =>
        IF csvContent = NotAString
        THEN csvResult = ParseFailure
        ELSE /\ sanitizedContent = sanitize(csvContent)
             /\ csvResult = parseCSVContent(sanitize(csvContent),
                                            WithPreview(req.processingOptions,
                                                        pc = "previewParsed"))

C19_Witness ==
    /\ pc = "uploadParsed"
    /\ csvContent = ExampleWithFileUri
    /\ sanitizedContent = <<"a", ",", "b">>
    /\ sanitizedContent # csvContent
    /\ csvResult.sheetData = << << <<"a">>, <<"b">> >> >>
    /\ csvResult # parseCSVContent(csvContent, WithPreview(req.processingOptions, FALSE))

(***************************************************************************)
(* Claims about the new-spreadsheet mode.                                  *)
(***************************************************************************)
NewSpreadsheetMode ==
    IsModesRequest /\ req.uploadOptions.mode = "new-spreadsheet"
SuppliedOrDatedTitle ==
    IF req.uploadOptions.sheetName = Undefined
    THEN "CSV Import - <date>" ELSE req.uploadOptions.sheetName

\* C20: in new-spreadsheet mode the first remote call creates a spreadsheet
\* with the supplied title or the dated default; a clear and then a put follow
\* only when it was answered 2xx, both to tab Sheet1 of the spreadsheet it
\* returned, and nothing is appended.
C20_CreateThenReplace ==
    NewSpreadsheetMode =>
        /\ \A k \in 1..Len(calls) :
              /\ calls[k].api = "create" =>
                    k = 1 /\ calls[k].name = SuppliedOrDatedTitle
              /\ calls[k].api \in {"clear", "put"} =>
                    /\ k > 1
                    /\ calls[1].api = "create"
                    /\ IsOk(calls[1].status)
                    /\ calls[k].spreadsheetId = NewSpreadsheetId
                    /\ calls[k].name = "Sheet1"
              /\ calls[k].api = "put" => calls[k - 1].api = "clear"
              /\ calls[k].api # "append"
        /\ uploadResult.success =>
              /\ Len(calls) >= 3
              /\ calls[3].api = "put" /\ IsOk(calls[3].status)

C20_Witness ==
    /\ NewSpreadsheetMode
    /\ pc = "done"
    /\ resBody.success
    /\ req.uploadOptions.sheetName = "Report"
    /\ calls[1] = CallTo("create", 200, Undefined, "Report")
    /\ calls[2].api = "clear"
    /\ calls[3] = CallTo("put", 200, "created", "Sheet1")

(***************************************************************************)
(* Claims about the header modes and the counts of parseCSVContent.        *)
(***************************************************************************)
ParseSucceeded == ppc = "returned" /\ csvResult.success
AllRowsAreData ==
    /\ csvResult.headers = Null
    /\ csvResult.rows = rows
    /\ csvResult.sheetData = rows

\* C21 as stated: with headerHandling 'none' or not supplied, every parsed row
\* is a data row and there are no headers.
C21_NoneOrUnsupplied ==
    (ParseSucceeded /\ options.headerHandling \in {Undefined, "none"}) => AllRowsAreData

\* C21: with headerHandling 'none' every parsed row is a data row and there
\* are no headers; a headerHandling that is not supplied is 'use', the first
\* parsed row being the headers and the others the data rows.
C21_NoneKeepsAllRows ==
    ParseSucceeded =>
        /\ options.headerHandling = "none" => AllRowsAreData
        /\ (options.headerHandling = Undefined /\ Len(rows) > 0) =>
              /\ csvResult.headers = rows[1]
              /\ csvResult.rows = Tail(rows)
              /\ csvResult.hasHeaders

C21_Witness ==
    /\ ParseSucceeded
    /\ options.headerHandling = "none"
    /\ Len(rows) = 2
    /\ rows[1] = <<<<"a">>, <<"b">>>>
    /\ csvResult.rows = rows
    /\ csvResult.headers = Null

HeaderAdjustment ==
    IF OrDefault(options.headerHandling, "use") \in {"use", "skip"} THEN 1 ELSE 0

\* C22: a preview tokenizes at most the first MaxPreviewRows + 1 retained
\* lines, and the total it reports is the number of all retained lines less
\* the header adjustment.
C22_PreviewReportsTrueTotal ==
    (ParseSucceeded /\ options.isPreview /\ Len(rows) > 0) =>
        /\ Len(rows) <= MaxPreviewRows + 1
        /\ csvResult.totalRows = Len(lines) - HeaderAdjustment

\* C23: a successful parse with at least one data row reports the length of
\* its first data row as columnCount, whatever the header mode and however
\* ragged the rows.
C23_ColumnCountOfFirstDataRow ==
    (ParseSucceeded /\ Len(csvResult.rows) > 0) =>
        csvResult.columnCount = Len(csvResult.rows[1])

(***************************************************************************)
(* Claims about the course of one upload request of the CSV API.           *)
(***************************************************************************)
IsUploadRequest == ~IsModesRequest /\ ~IsUploadCsvRequest /\ req.action = "complete-upload"

\* RECEIVED (0), SANITIZED and PARSED (1), destination being resolved (2),
\* writing (3), WRITTEN (4), REPORTED or FAILED (5).
Stage(p) ==
    CASE p \in {"received", "complete-upload", "checkFields"} -> 0
      [] p = "uploadParsed" -> 1
      [] p \in {"tokenTest", "getSpreadsheet"} -> 2
      [] p \in {"clear", "put", "append"} -> 3
      [] p \in {"format", "uploadReturned"} -> 4
      [] p = "done" -> 5
      [] OTHER -> 0

WriteIssued == \E k \in 1..Len(calls) : calls[k].api \in {"clear", "put", "append"}
RowsWriteReturnedOk ==
    \E k \in 1..Len(calls) : calls[k].api \in {"put", "append"} /\ IsOk(calls[k].status)
TrialGatePassed == usageRow \in {"trial-active", "paid-active", "paid-expired"}

\* C24: an upload request never goes back to an earlier state and answers
\* once; a clear, put or append is issued only after the API key was verified,
\* the trial gate passed, the content was sanitized and parsed into rows, the
\* token test and the lookup were answered 2xx; a success is answered only
\* after the write of the rows was answered 2xx.
C24_UploadStateMachine ==
    /\ [][IsUploadRequest => Stage(pc) <= Stage(pc')]_vars
    /\ [][(IsUploadRequest /\ resStatus # 0) => UNCHANGED <<resStatus, resBody>>]_vars
    /\ [](IsUploadRequest => (pc = "done" <=> resStatus # 0))
    /\ []((IsUploadRequest /\ WriteIssued) =>
            /\ req.method = "POST" /\ req.apiKey = "valid"
            /\ TrialGatePassed
            /\ csvContent # NotAString
            /\ sanitizedContent = sanitize(csvContent)
            /\ csvResult = parseCSVContent(sanitizedContent,
                                           WithPreview(req.processingOptions, FALSE))
            /\ csvResult.success /\ Len(csvResult.sheetData) > 0
            /\ Len(calls) >= 3
            /\ calls[1].api = "userinfo" /\ IsOk(calls[1].status)
            /\ calls[2].api = "getSpreadsheet" /\ IsOk(calls[2].status)
            /\ calls[3].api \in {"clear", "put", "append"})
    /\ []((IsUploadRequest /\ pc = "done" /\ resBody.success) =>
            WriteIssued /\ RowsWriteReturnedOk /\ resStatus = 200)

C24_Witness ==
    /\ IsUploadRequest
    /\ pc = "done"
    /\ resBody.success
    /\ usageRow = "paid-expired"
    /\ calls[3] = Call("clear", 500)
    /\ calls[4] = Call("put", 200)
    /\ csvContent = ExampleWithFileUri

(***************************************************************************)
(* Claims about the tab after a replace upload.                            *)
(***************************************************************************)
ClearAnsweredOk == \E k \in 1..Len(calls) : calls[k].api = "clear" /\ IsOk(calls[k].status)

\* C25: after a successful replace upload whose clear was answered 2xx, the
\* tab holds exactly sheetData: nothing of what it held before is left, in
\* whatever column it was.
C25_ReplaceLeavesOnlySheetData ==
    (IsUploadRequest /\ req.uploadOptions.mode = "replace" /\ uploadResult.success
        /\ ClearAnsweredOk) =>
        sheetRows = TabOf(csvResult.sheetData)

\* The sizes of the sheetData a new tab is created for: within the default
\* grid, exactly the default grid, and one row or one column beyond it.
SheetDataSizes ==
    {[rows |-> r, columns |-> c] :
        r \in {1, rowCount, rowCount + 1}, c \in {1, columnCount, columnCount + 1}}

AtLeast(a, b) == IF a >= b THEN a ELSE b

\* C26: every addSheet request of a create-tab handler asks for at least as
\* many rows and columns as the sheetData to be written has, and for at least
\* 1000 rows and 26 columns, so that a sheetData of more than 1000 rows or
\* more than 26 columns gets a larger tab.
C26_TabSizedToFitSheetData ==
    \A k \in 1..Len(tabCalls) :
        tabCalls[k].api = "addSheet" =>
            \A size \in SheetDataSizes :
                /\ tabCalls[k].gridProperties.rowCount >= AtLeast(size.rows, 1000)
                /\ tabCalls[k].gridProperties.columnCount >= AtLeast(size.columns, 26)

\* A row of sheetData is the record it was made from when it is that record,
\* the record with its header names cleaned, or the record with its cell
\* values processed.
MadeFrom(record) ==
    {record,
     [k \in 1..Len(record) |-> cleanHeaderName(record[k])],
     [k \in 1..Len(record) |-> processCellValue(record[k])]}

\* The rows of data are made from consecutive records, in their order.
RowsOfInput(data, records) ==
    /\ Len(data) <= Len(records)
    /\ \E d \in 0..(Len(records) - Len(data)) :
          \A k \in 1..Len(data) : data[k] \in MadeFrom(records[k + d])

\* C27: each row of the sheetData the upload handler of upload-csv.js writes
\* is made from a row of the input text, in input order; a header row that
\* was not in the input is never injected.
C27_SheetDataRowsAreInputRows ==
    (IsUploadCsvRequest /\ csvResult.success) =>
        RowsOfInput(csvResult.sheetData, Records(csvContent))

\* The calls that wrote rows: a put or an append answered 2xx.
RowWrites ==
    {k \in 1..Len(calls) : calls[k].api \in {"put", "append"} /\ IsOk(calls[k].status)}

\* C28: in every upload mode of the handler with upload modes, new-spreadsheet
\* mode included, the spreadsheet id and URL of the success response are those
\* of the spreadsheet the rows were written to.
C28_ResponseNamesWrittenSpreadsheet ==
    (IsModesRequest /\ pc = "done" /\ resBody.success) =>
        \A k \in RowWrites : resBody.upload.spreadsheetUrl = calls[k].spreadsheetId

(***************************************************************************)
(* Claims about two create-tab requests at the same time.                  *)
(***************************************************************************)
SameTabName ==
    toLowerCase(finalTabName(raceData[1])) = toLowerCase(finalTabName(raceData[2]))
BothPassedLookup ==
    \A r \in RaceRequests :
        \E k \in 1..Len(raceCalls) :
            raceCalls[k].request = r /\ raceCalls[k].api = "addSheet"

\* C29: when two create-tab requests for the same tab name, ignoring case,
\* run at the same time and both pass the existence check, at most one is
\* answered with success, and the one whose addSheet the remote service
\* refuses for the duplicate name is answered 409.
C29_DuplicateCreateIsConflict ==
    (SameTabName /\ BothPassedLookup) =>
        /\ ~(\A r \in RaceRequests : raceRes[r] = 200)
        /\ \A k \in 1..Len(raceCalls) :
              (raceCalls[k].api = "addSheet" /\ raceCalls[k].alreadyExists) =>
                  raceRes[raceCalls[k].request] = 409

(***************************************************************************)
(* Claims about the bulk queue.                                            *)
(***************************************************************************)
\* Request r has read the job row.
HasReadJob(r) == bulkReq[r].job # NoJob
ClosedStatuses == {"processing", "completed", "failed", "partial"}

\* The step is one of request r.
StepOf(r) == bulkReq'[r] # bulkReq[r]

ExecuteSucceeded(r) ==
    bulkReq[r].action = "bulk-queue-execute" /\ bulkRes[r].success

\* C31: when bulk-queue-execute returns success, every file it selected as
\* pending has status 'completed' or 'failed', successCount + errorCount is
\* the number of files selected, and the job status is 'completed' exactly
\* when errorCount is 0, 'failed' exactly when successCount is 0 and
\* errorCount is above 0, and 'partial' otherwise.
C31_ExecuteSettlesFilesAndJob ==
    \A r \in BulkRequests :
        ExecuteSucceeded(r) =>
            /\ \A k \in 1..Len(bulkReq[r].selected) :
                  bulkFiles[bulkReq[r].selected[k]] \in {"completed", "failed"}
            /\ bulkReq[r].successCount + bulkReq[r].errorCount = Len(bulkReq[r].selected)
            /\ bulkJob.status =
                  IF bulkReq[r].errorCount = 0 THEN "completed"
                  ELSE IF bulkReq[r].successCount = 0 THEN "failed"
                  ELSE "partial"

\* The requests whose handleCompleteUpload has written file f to Google
\* Sheets, and how often request r has written it.
UploadsBy(r, f) ==
    Cardinality({k \in 1..Len(bulkReq[r].uploaded) : bulkReq[r].uploaded[k] = f})

\* C32: each pending file of a bulk job is uploaded to Google Sheets at most
\* once, also when two bulk-queue-execute requests for the job run at the
\* same time.
C32_FileUploadedAtMostOnce ==
    \A f \in 1..Len(bulkFiles) :
        /\ \A r \in BulkRequests : UploadsBy(r, f) <= 1
        /\ Cardinality({r \in BulkRequests : UploadsBy(r, f) > 0}) <= 1

\* Every request has been answered.
AllBulkRequestsDone == \A r \in BulkRequests : bulkReq[r].pc = "done"

\* C33: once all the add-file and remove-file requests on a job, those run at
\* the same time included, have completed, files_count of the job is the
\* number of file records stored for the job.
C33_FilesCountIsNumberOfRecords ==
    AllBulkRequestsDone => bulkJob.files_count = Cardinality(FileRecords(bulkFiles))

(***************************************************************************)
(* Claims about the create-sheet handlers.                                 *)
(***************************************************************************)
IsSheetRequest == "usage" \in DOMAIN tabReq
CreateIssued == \E k \in 1..Len(tabCalls) : tabCalls[k].api = "create"

\* C34: no create-sheet handler issues the create-spreadsheet call for a user
\* whose plan is 'trial' and whose trial has ended; a request of such a user
\* that passed the checks of the dispatcher is answered 402.
C34_NoCreateAfterTrial ==
    (IsSheetRequest /\ tabReq.usage = "trial-expired") =>
        /\ ~CreateIssued
        /\ (tabPc = "done" /\ SheetEntryError(tabReq) = 0) => tabRes.status = 402

(***************************************************************************)
(* Claims about the trial status and the trial gate.                       *)
(***************************************************************************)
\* C35: for a user on the 'trial' plan, when user-info reports isActive and
\* no needsUpgrade at a time t, the trial gate of complete-upload at the same
\* time t does not answer 402.
C35_TrialStatusAgreesWithGate ==
    (/\ usageData.plan = "trial"
     /\ trialStatus.at = gate.at /\ gate.at >= 0
     /\ trialStatus.isActive /\ ~trialStatus.needsUpgrade) => gate.status # 402

(***************************************************************************)
(* Claims about the sanitizer applied to its own result.                   *)
(***************************************************************************)
\* C36: the sanitizer is idempotent: the three statements applied to a text
\* they have produced return that text unchanged.
C36_SanitizerIdempotent ==
    spc = "sanitized" => sanitize(sanitizedContent) = sanitizedContent

(***************************************************************************)
(* Claims about the background script.                                     *)
(***************************************************************************)
WasHandled(k) == \E p \in 1..Len(handled) : handled[p] = k

OneDrainLoop ==
    /\ Len(drains) <= 1
    /\ \A p \in 1..Len(handled) : handled[p] = p
    /\ Len(drains) = 0 => (csvDetectionQueue = <<>> /\ ~isProcessingQueue)

\* C37: at most one drain loop (processCSVQueue) runs at any time; the
\* detections are handled by handleCSVDetection once each and in the order
\* they were pushed, and every detection pushed is eventually handled (the
\* script comes again and again to a state where all the detections pushed
\* so far have been handled); when no drain loop runs the queue is empty and
\* isProcessingQueue is false.
C37_QueueDrainedInOrder ==
    /\ []OneDrainLoop
    /\ []<>(\A k \in 1..Len(csvInfos) : WasHandled(k))

C37_Witness ==
    /\ Len(handled) = MaxDetections
    /\ Len(drains) = 1
    /\ \E k \in 1..Len(csvInfos) : csvInfos[k].type = "web_request"

InterceptionInFlight == \E k \in 1..Len(intercepts) : intercepts[k] \notin {"none", "done"}

Quiescent ==
    /\ csvDetectionQueue = <<>>
    /\ drains = <<>>
    /\ ~InterceptionInFlight
    /\ searches = {}

\* C38: when the background script is quiescent (queue empty, no drain loop,
\* no interception and no search in flight), the entry 'lastCSVDownload' of
\* chrome.storage.local and the lastCSVDownload in memory are the same
\* download, or both absent.
C38_StorageAgreesWithMemory == Quiescent => storage.id = lastCSVDownload

====
